---- MODULE Spec2Model ----
(***************************************************************************)
(* State-machine model of the momentum strategy engine                     *)
(* (src/src/core/momentumStrategy.ts), the dashboard's manual_sell handler *)
(* (src/src/web/dashboard.ts) and the event-loop tasks they schedule:      *)
(* noBuyTimer callbacks, assessTokenRisk continuations and hasDevExited    *)
(* continuations; the Trader (src/src/core/trader.ts) and the tracked set  *)
(* of the JitoListener (src/src/core/jitoListener.ts) as wired by main.    *)
(*                                                                         *)
(* Units.  Time is in whole seconds (Date.now()/1000).  SOL amounts of the *)
(* position (entrySol, investedSol, profitSol) are in milli-SOL; profitSol *)
(* is an exact rational <<numerator, denominator>>.  Prices, liquidity and *)
(* trade sizes are integers.  Optional fields that are `undefined` in the  *)
(* source hold Undef (integers) or RUndef (rationals).                     *)
(***************************************************************************)
EXTENDS Integers, Sequences, FiniteSets, TLC

\* ------------------------------------------------------------------ bounds
NumMints == 1
NumRiskMints == 7
MaxTime == 1
MaxAdmissions == 2
MaxPriceEvents == 2
MaxManualSells == 2
MaxTradeAdmissions == 2
MaxTradePrices == 4
MaxTradeTime == 2
MaxSignals == 3
MaxLoadPrices == 2
MaxHeuristicPrices == 5
MaxTrees == 2
MaxFeatures == 2
MaxPredictCalls == 2
MaxStreams == 3
MaxUpdates == 2
MaxTrailPrices == 120

\* ------------------------------------------------------- program constants
MAX_RISK_CONCURRENCY == 6
DEV_RECHECK_SEC == 15
MAX_VALUE == 1000000
Undef == -1

Mints == 1..NumMints
RiskMints == 1..NumRiskMints
AllMints == Mints \cup RiskMints
Ids == 1..(MaxAdmissions + MaxTradeAdmissions + NumRiskMints)

\* ---------------------------------------------------------------- rationals
Abs(x) == IF x < 0 THEN -x ELSE x

RECURSIVE GCD(_, _)
GCD(a, b) == IF b = 0 THEN a ELSE GCD(b, a % b)

Rat(n, d) ==
  LET g == GCD(Abs(n), Abs(d))
      sgn == IF d < 0 THEN -1 ELSE 1
  IN  IF n = 0 THEN <<0, 1>> ELSE <<sgn * (n \div g), sgn * (d \div g)>>

RUndef == <<0, 0>>
RDefined(r) == r[2] # 0
RInt(k) == <<k, 1>>
RAdd(a, b) == Rat(a[1] * b[2] + b[1] * a[2], a[2] * b[2])
RSub(a, b) == Rat(a[1] * b[2] - b[1] * a[2], a[2] * b[2])
RMul(a, b) == Rat(a[1] * b[1], a[2] * b[2])
RDiv(a, b) == Rat(a[1] * b[2], a[2] * b[1])
RLt(a, b) == a[1] * b[2] < b[1] * a[2]
RLe(a, b) == a[1] * b[2] <= b[1] * a[2]
RMin(a, b) == IF RLe(a, b) THEN a ELSE b
RMax(a, b) == IF RLe(a, b) THEN b ELSE a
ROne == <<1, 1>>
RZero == <<0, 1>>

\* ------------------------------------------------------------ configuration
\* A `config` object handed to the constructor, with the gates at their
\* defaults (risk filter on, skip_dev_first_token, require_dev_sold) and the
\* durations and activity thresholds scaled to the clock of the model.
\* `take_profit` and `exit_tps` are optional keys (RUndef = absent).
\* Decimal values are rationals.
BaseConfig ==
  [ skip_dev_same_ticker      |-> FALSE,
    token_max_age             |-> 1,
    min_initial_mcap          |-> 0,
    max_initial_liquidity_sol |-> MAX_VALUE,
    no_trade_timeout_sec      |-> 1,
    enable_tax_bundler_filter |-> TRUE,
    max_transfer_fee_bps      |-> 0,
    allow_bundler             |-> FALSE,
    min_runtime_mcap_sol      |-> 30,
    tps_window_ms             |-> 1000,
    ema_short_ms              |-> 1000,
    ema_long_ms               |-> 3000,
    atr_window_sec            |-> 3,
    require_dev_sold          |-> TRUE,
    skip_dev_first_token      |-> TRUE,
    trade_size_sol            |-> 500,
    dev_blacklist_sec         |-> 1,
    rug_liquidity_drop_pct    |-> <<2, 5>>,
    min_liquidity_sol         |-> 0,
    min_volume_sol            |-> 0,
    min_tps                   |-> <<2, 1>>,
    min_unique_wallets        |-> 0,
    max_avg_sol_per_tx        |-> 2,
    exceptional_momentum_pct  |-> <<2, 1>>,
    migrate_fill_pct          |-> <<97, 100>>,
    take_profit               |-> <<9, 10>>,
    base_trail_dd             |-> <<1, 5>>,
    tps_trail_scale           |-> <<1, 25>>,
    atr_mult                  |-> 1,
    disable_ema_tps_gain_pct  |-> <<3, 10>>,
    exit_tps                  |-> <<2, 1>> ]

\* The same configuration with the admission gates switched off
\* (enable_tax_bundler_filter: false, skip_dev_first_token: false,
\* require_dev_sold: false): every admitted token may trade at once.
TradeConfig ==
  [BaseConfig EXCEPT !.enable_tax_bundler_filter = FALSE,
                     !.skip_dev_first_token = FALSE,
                     !.require_dev_sold = FALSE]


\* -------------------------------------------------------------------- state
VARIABLES
  config,           \* MomentumStrategy.config
  now,              \* Date.now() / 1000
  states,           \* MomentumStrategy.states : mint -> TokenState
  timers,           \* pending setTimeout callbacks of onPool
  risks,            \* assessTokenRisk calls in progress, by admission id
  riskInFlight,     \* MomentumStrategy.riskInFlight
  probes,           \* hasDevExited calls in flight, by admission id
  devTokenCount,    \* MomentumStrategy.devTokenCount
  devLastTicker,    \* MomentumStrategy.devLastTicker
  devBlacklist,     \* MomentumStrategy.devBlacklist
  profitSol,        \* realized profit (rational, milli-SOL)
  investedSol,      \* open position size (milli-SOL)
  totalInvestedSol, \* cumulative capital committed (milli-SOL)
  gbmBuy,           \* buy model loaded
  gbmSell,          \* sell model loaded
  pureML,           \* MomentumStrategy.pureML
  nextId,           \* identity of the next TokenState object created
  emitted,          \* signals$ emissions of the last step
  pnlOut,           \* pnl$ emissions of the last step
  unsub,            \* scanner.unsubscribeMint calls of the last step
  buys,             \* BUY signals emitted so far, per mint
  sells,            \* SELL signals emitted so far, per mint
  nPrice,           \* price events processed so far
  nManual,          \* manual_sell requests handled so far
  last,             \* the handler that ran in the last step
  modelFiles,       \* the LightGBM model files the constructor finds
  tracked,          \* JitoListener.tracked
  trader,           \* Trader: apiCfg, pending validations, requests made
  predictor,        \* a GbmPredictor, the last feats given to predict, its score
  geyser            \* JitoListener: its streams, reconnect timers, prices$ log

vars == <<config, now, states, timers, risks, riskInFlight, probes, devTokenCount,
          devLastTicker, devBlacklist, profitSol, investedSol,
          totalInvestedSol, gbmBuy, gbmSell, pureML, nextId, emitted, pnlOut,
          unsub, buys, sells, nPrice, nManual, last, modelFiles, tracked,
          trader, predictor, geyser>>

\* ------------------------------------------------------------------ helpers
Devs == {"D"}
Symbols == {"aaa"}

\* String.prototype.toLowerCase on the tickers of the model
ToLower(s) == IF s = "AAA" THEN "aaa" ELSE s

\* Map.get(k) ?? d
GetOr(f, k, d) == IF k \in DOMAIN f THEN f[k] ELSE d

\* Map.set(k, v)
MapSet(f, k, v) == [x \in DOMAIN f \cup {k} |-> IF x = k THEN v ELSE f[x]]

\* Map.delete(k)
MapDelete(f, k) == [x \in DOMAIN f \ {k} |-> f[x]]

\* The mint whose tracked TokenState is the object created with identity id
\* (a closure's captured `stateRef` / `state`), or the empty set if that
\* object is no longer a value of `states`.
HolderOf(st, id) == {m \in DOMAIN st : st[m].id = id}

Signal(m, action, reason, price) ==
  [mint |-> m, action |-> action, reason |-> reason, price |-> price]

\* stopTracking(id): states.delete(id); scanner?.unsubscribeMint(id)
StopTracking(st, m) == MapDelete(st, m)

NoSignals ==
  /\ emitted' = <<>>
  /\ pnlOut' = <<>>
  /\ UNCHANGED <<buys, sells, profitSol, investedSol, totalInvestedSol>>

MLFixed == UNCHANGED <<config, gbmBuy, gbmSell, pureML, modelFiles, predictor>>

\* The strategy's handlers do not touch the Trader or the JitoListener.
TraderIdle == UNCHANGED trader

ListenerIdle == UNCHANGED <<tracked, geyser>>

\* ------------------------------------------------------------------- Trader
\* Trader constructor: apiCfg = config.pump_api; the Jito endpoint is set
\* only in live mode with use_jito.  `calls` records the callApi invocations,
\* `paperLog` the [PAPER ...] log lines and `requests` the HTTP POSTs issued
\* to the trade API ("api") or the Jito relay ("jito").
NewTrader(paper, use_jito) ==
  [ paper        |-> paper,
    use_jito     |-> use_jito,
    jitoEndpoint |-> ~paper /\ use_jito,
    validating   |-> <<>>,
    calls        |-> <<>>,
    paperLog     |-> <<>>,
    requests     |-> <<>>,
    nSignals     |-> 0 ]

\* The request body built by buy() and sell().
Body(t, action, m) ==
  [ action           |-> action,
    mint             |-> m,
    amount           |-> IF action = "buy" THEN "trade_size_sol" ELSE "100%",
    denominatedInSol |-> action = "buy",
    slippage         |-> "slippage",
    private          |-> IF t.paper THEN "" ELSE "secretKey",
    priorityFeeLamports |-> "priority_fee" ]

\* Line 138: txObj.tx || txObj.transaction || '' for an object txObj.
RawTx(txObj) ==
  IF "tx" \in DOMAIN txObj /\ txObj.tx # "" THEN txObj.tx
  ELSE IF "transaction" \in DOMAIN txObj /\ txObj.transaction # ""
    THEN txObj.transaction
  ELSE ""

\* sendViaJito(txObj, tag), up to the fetch; the response is only logged.
SendViaJito(t, txObj, tag) ==
  IF ~t.jitoEndpoint THEN t
  ELSE IF RawTx(txObj) = "" THEN t
  ELSE [t EXCEPT !.requests = Append(@, [to |-> "jito", tag |-> tag,
                                          mint |-> txObj.mint])]

\* A variant of callApi without the paper-trading branch.
CallApiLive(t, body, tag) ==
  LET t1 == [t EXCEPT !.calls = Append(@, [tag |-> tag, mint |-> body.mint])]
  IN IF t1.use_jito THEN SendViaJito(t1, body, tag)
     ELSE [t1 EXCEPT !.requests = Append(@, [to |-> "api", tag |-> tag,
                                             mint |-> body.mint])]

\* callApi(body, tag), up to the fetch; the response is only logged.
CallApi(t, body, tag) ==
  LET t1 == [t EXCEPT !.calls = Append(@, [tag |-> tag, mint |-> body.mint])]
  IN IF t1.paper
       THEN [t1 EXCEPT !.paperLog = Append(@, [tag |-> tag, mint |-> body.mint])]
     ELSE IF t1.use_jito THEN SendViaJito(t1, body, tag)
     ELSE [t1 EXCEPT !.requests = Append(@, [to |-> "api", tag |-> tag,
                                             mint |-> body.mint])]

SeqRemove(q, i) == SubSeq(q, 1, i - 1) \o SubSeq(q, i + 1, Len(q))

\* What a Trader handler leaves alone: the whole strategy engine.
EngineIdle ==
  /\ unsub' = <<>>
  /\ NoSignals
  /\ MLFixed
  /\ ListenerIdle
  /\ UNCHANGED <<now, states, timers, risks, riskInFlight, probes, devTokenCount,
                 devLastTicker, devBlacklist, nextId, nPrice, nManual>>

\* onSignal(signal): a BUY starts validateToken (getMint on the RPC
\* connection) and suspends; a SELL goes straight to callApi.
TraderOnSignal(sig) ==
  /\ trader' =
       LET t == [trader EXCEPT !.nSignals = @ + 1]
       IN IF sig.action = "BUY"
            THEN [t EXCEPT !.validating = Append(@, sig.mint)]
            ELSE CallApi(t, Body(t, "sell", sig.mint), "SELL")
  /\ last' = [op |-> "onSignal", mint |-> sig.mint, exit |-> ""]
  /\ EngineIdle

\* buy(mint) resumes after validateToken: ok is its result (false when the
\* mint authority is present, the supply is small or getMint throws).
TraderValidateDone(i, ok) ==
  /\ i \in DOMAIN trader.validating
  /\ trader' =
       LET m == trader.validating[i]
           t == [trader EXCEPT !.validating = SeqRemove(@, i)]
       IN IF ok THEN CallApi(t, Body(t, "buy", m), "BUY") ELSE t
  /\ last' = [op |-> "validateDone", mint |-> trader.validating[i], exit |-> ""]
  /\ EngineIdle

\* Lines 114-132 of the constructor: <<gbmBuy, gbmSell, pureML>> from the
\* configuration and the state of buy.json / sell.json ("ok", "absent", or
\* "corrupt": the file exists and GbmPredictor throws on it).  An absent file
\* skips only that model's load; a throw leaves the try block before pureML
\* is assigned.
LoadModels(cfg, files) ==
  IF ~cfg.lgbm_enabled THEN <<FALSE, FALSE, FALSE>>
  ELSE IF files.buy = "corrupt" THEN <<FALSE, FALSE, FALSE>>
  ELSE IF files.sell = "corrupt" THEN <<files.buy = "ok", FALSE, FALSE>>
  ELSE <<files.buy = "ok", files.sell = "ok", cfg.pure_ml>>

\* --------------------------------------------------------------------- Init
\* A variant of the TokenState literal that takes createdAt from the pool
\* event (event.createdAt = now - age) instead of the admission time.
NewTokenStateEventTime(id, ev, devFirst) ==
  [ id             |-> id,
    noBuyTimer     |-> id,
    liquidity      |-> ev.initialMcap,
    volumeSol      |-> 0,
    highestPrice   |-> 0,
    lowestPrice    |-> MAX_VALUE,
    entryPrice     |-> Undef,
    entrySol       |-> Undef,
    peakSinceEntry |-> Undef,
    peakLiquidity  |-> ev.initialMcap,
    isExceptional  |-> FALSE,
    trades         |-> <<>>,
    wallets        |-> <<>>,
    emaShort       |-> RUndef,
    emaLong        |-> RUndef,
    atr            |-> RUndef,
    lastPrice      |-> Undef,
    hasBought      |-> FALSE,
    createdAt      |-> now - ev.age,
    initialTokens  |-> Undef,
    transferFeeBps |-> Undef,
    isBundler      |-> FALSE,
    riskChecked    |-> FALSE,
    devWallet      |-> ev.devWallet,
    devSold        |-> FALSE,
    devFirstToken  |-> devFirst,
    symbol         |-> ev.symbol,
    nextDevCheck   |-> Undef ]

NewTokenState(id, ev, devFirst) ==
  [ id             |-> id,
    noBuyTimer     |-> id,
    liquidity      |-> ev.initialMcap,
    volumeSol      |-> 0,
    highestPrice   |-> 0,
    lowestPrice    |-> MAX_VALUE,
    entryPrice     |-> Undef,
    entrySol       |-> Undef,
    peakSinceEntry |-> Undef,
    peakLiquidity  |-> ev.initialMcap,
    isExceptional  |-> FALSE,
    trades         |-> <<>>,
    wallets        |-> <<>>,
    emaShort       |-> RUndef,
    emaLong        |-> RUndef,
    atr            |-> RUndef,
    lastPrice      |-> Undef,
    hasBought      |-> FALSE,
    createdAt      |-> now,
    initialTokens  |-> Undef,
    transferFeeBps |-> Undef,
    isBundler      |-> FALSE,
    riskChecked    |-> FALSE,
    devWallet      |-> ev.devWallet,
    devSold        |-> FALSE,
    devFirstToken  |-> devFirst,
    symbol         |-> ev.symbol,
    nextDevCheck   |-> Undef ]

\* The outcomes of the constructor's model loading that the model starts
\* from: <<gbmBuy, gbmSell, pureML>> for the default configuration (no
\* model), both models loaded, and both models loaded with pure_ml.
MLConfigs == {<<FALSE, FALSE, FALSE>>, <<TRUE, TRUE, FALSE>>, <<TRUE, TRUE, TRUE>>}

\* ----------------------------------------------------------- GbmPredictor
\* An optional field of a JSON object is a set with at most one element.
Opt(field, default) == IF field = {} THEN default ELSE CHOOSE v \in field : TRUE

\* feats[i] ?? 0, for a JavaScript array held as a sequence.
FeatureAt(feats, i) == IF i + 1 \in DOMAIN feats THEN feats[i + 1] ELSE 0

\* A variant of scoreTree that goes left on fVal < threshold.
RECURSIVE scoreTreeStrict(_, _)
scoreTreeStrict(node, feats) ==
  IF node.leaf_value # {} THEN Opt(node.leaf_value, 0)
  ELSE LET featureIdx == Opt(node.split_feature, 0)
           fVal == FeatureAt(feats, featureIdx)
           goLeft == fVal < Opt(node.threshold, 0)
       IN scoreTreeStrict(IF goLeft THEN node.left_child ELSE node.right_child, feats)

\* GbmPredictor.scoreTree
RECURSIVE scoreTree(_, _)
scoreTree(node, feats) ==
  IF node.leaf_value # {} THEN Opt(node.leaf_value, 0)
  ELSE LET featureIdx == Opt(node.split_feature, 0)
           fVal == FeatureAt(feats, featureIdx)
           goLeft == fVal <= Opt(node.threshold, 0)
       IN scoreTree(IF goLeft THEN node.left_child ELSE node.right_child, feats)

\* The loop of predict: the score before the sigmoid is applied.
RECURSIVE SumTrees(_, _)
SumTrees(trees, feats) ==
  IF trees = <<>> THEN 0
  ELSE scoreTree(Head(trees), feats) + SumTrees(Tail(trees), feats)

\* GbmPredictor constructor on a BoosterDump.
NewPredictor(dump) ==
  [initScore |-> IF "init_score" \in DOMAIN dump THEN dump.init_score ELSE 0,
   trees     |-> dump.tree_info,
   feats     |-> <<>>,
   score     |-> 0,
   calls     |-> 0]

\* predict(feats): score = initScore + the sum over the trees; the value
\* returned is 1 / (1 + exp(-score)).
Predict(feats) ==
  /\ predictor' = [predictor EXCEPT
                     !.feats = feats,
                     !.score = predictor.initScore + SumTrees(predictor.trees, feats),
                     !.calls = @ + 1]
  /\ last' = [op |-> "predict", mint |-> 0, exit |-> ""]
  /\ unsub' = <<>>
  /\ NoSignals
  /\ TraderIdle
  /\ ListenerIdle
  /\ UNCHANGED <<config, gbmBuy, gbmSell, pureML, modelFiles>>
  /\ UNCHANGED <<now, states, timers, risks, riskInFlight, probes, devTokenCount,
                 devLastTicker, devBlacklist, nextId, nPrice, nManual>>

\* Field initialisers and the constructor: without lgbm_enabled no model is
\* loaded and pureML stays false; with it, each model is loaded iff its file
\* exists and pureML = Boolean(config.pure_ml).
InitEngine(configs, mlConfigs, files, traderCfgs) ==
  /\ config \in configs
  /\ now = 0
  /\ states = <<>>
  /\ timers = {}
  /\ risks = <<>>
  /\ riskInFlight = 0
  /\ probes = [i \in Ids |-> 0]
  /\ devTokenCount = <<>>
  /\ devLastTicker = <<>>
  /\ devBlacklist = <<>>
  /\ profitSol = RZero
  /\ investedSol = 0
  /\ totalInvestedSol = 0
  /\ gbmBuy \in BOOLEAN
  /\ gbmSell \in BOOLEAN
  /\ pureML \in BOOLEAN
  /\ <<gbmBuy, gbmSell, pureML>> \in mlConfigs
  /\ nextId = 1
  /\ emitted = <<>>
  /\ pnlOut = <<>>
  /\ unsub = <<>>
  /\ buys = [m \in AllMints |-> 0]
  /\ sells = [m \in AllMints |-> 0]
  /\ nPrice = 0
  /\ nManual = 0
  /\ last = [op |-> "init", mint |-> 0, exit |-> ""]
  /\ modelFiles \in files
  /\ tracked = {}
  /\ trader \in {NewTrader(c[1], c[2]) : c \in traderCfgs}

\* --------------------------------------------------------- JitoListener
\* A Geyser subscription made by start(): whether its 'error' and its 'end'
\* handler have run.
NewStream == [errored |-> FALSE, ended |-> FALSE]

\* A stream delivers 'data' until the call has failed or ended.
Delivering(str) == ~str.errored /\ ~str.ended

\* A JitoListener before start(): no stream, no reconnect timer pending,
\* nothing published on prices$; the feed has sent nothing and no update is
\* on its way to a stream.
NewListener ==
  [streams |-> <<>>, reconnects |-> 0, published |-> <<>>, sent |-> 0,
   inFlight |-> {}]

\* start(): a new subscription with its three handlers attached.  The stream
\* it replaces in this.stream is neither cancelled nor stripped of handlers.
Start(g) == [g EXCEPT !.streams = Append(@, NewStream)]

\* The engine with no GbmPredictor object under study and the listener
\* not started.
InitFrom(configs, mlConfigs, files, traderCfgs) ==
  /\ InitEngine(configs, mlConfigs, files, traderCfgs)
  /\ predictor = NewPredictor([tree_info |-> <<>>])
  /\ geyser = NewListener

\* Both model files present.
ModelsPresent == [buy |-> "ok", sell |-> "ok"]

\* pump_api.paper: true, use_jito: false (the bot starts in paper trading).
PaperTrading == <<TRUE, FALSE>>

InitWith(configs, mlConfigs) ==
  InitFrom(configs, mlConfigs, {ModelsPresent}, {PaperTrading})

Init == InitWith({BaseConfig}, MLConfigs)

\* ------------------------------------------------------------- pool events
PoolEvents(mints, devs) ==
  [ mint        : mints,
    devWallet   : devs,
    symbol      : Symbols,
    age         : {0, config.token_max_age, config.token_max_age + 1},
    initialMcap : {100},
    hasSig      : BOOLEAN ]

\* A variant of the entry of assessTokenRisk without the semaphore loop.
RiskEnterUnbounded(inFlight) == [pc |-> "fee", inFlight |-> inFlight + 1]

\* assessTokenRisk up to its first await: the semaphore loop and the
\* increment run synchronously inside onPool.
RiskEnter(inFlight) ==
  IF inFlight >= MAX_RISK_CONCURRENCY
    THEN [pc |-> "wait", inFlight |-> inFlight]
    ELSE [pc |-> "fee", inFlight |-> inFlight + 1]

\* A variant of the test of line 155 that treats every mint as new.
NeverTracked(st, m) == FALSE

\* Line 155: this.states.has(id).
AlreadyTracked(st, m) == m \in DOMAIN st

\* A variant of the admission filters that tests the age only.
RejectedByAgeOnly(ev) == ev.age > config.token_max_age

\* Lines 150-152: the admission filters on age and initial market cap.
Rejected(ev) ==
  \/ ev.age > config.token_max_age
  \/ ev.initialMcap < config.min_initial_mcap
  \/ ev.initialMcap > config.max_initial_liquidity_sol

\* The pools$ subscriber of main: strategy.onPool(event), then
\* jito.trackMint(event.mint) whatever onPool decided.
OnPool(ev) ==
  LET sameTickerOn == config.skip_dev_same_ticker /\ ev.devWallet # "" /\ ev.symbol # ""
      lastT == ToLower(GetOr(devLastTicker, ev.devWallet, ""))
      curr == ToLower(ev.symbol)
      sameTicker == sameTickerOn /\ lastT # "" /\ lastT = curr
      rejected == Rejected(ev)
      id == nextId
      prev == GetOr(devTokenCount, ev.devWallet, 0)
      devFirst == ev.devWallet # "" /\ prev = 0
      s0 == NewTokenState(id, ev, devFirst)
      enter == RiskEnter(riskInFlight)
  IN
  /\ devLastTicker' = IF sameTickerOn THEN MapSet(devLastTicker, ev.devWallet, curr)
                                      ELSE devLastTicker
  /\ last' = [op |-> "onPool", mint |-> ev.mint, exit |-> ""]
  /\ unsub' = <<>>
  /\ NoSignals
  /\ MLFixed
  /\ TraderIdle
  /\ tracked' = tracked \cup {ev.mint}
  /\ UNCHANGED <<geyser, now, probes, devBlacklist, nPrice, nManual>>
  /\ IF sameTicker \/ rejected \/ AlreadyTracked(states, ev.mint)
       THEN UNCHANGED <<states, timers, risks, riskInFlight, devTokenCount, nextId>>
       ELSE
         /\ nextId' = nextId + 1
         /\ devTokenCount' = IF ev.devWallet # ""
                               THEN MapSet(devTokenCount, ev.devWallet, prev + 1)
                               ELSE devTokenCount
         /\ timers' = timers \cup
              {[id |-> id, mint |-> ev.mint,
                fireAt |-> now + config.no_trade_timeout_sec]}
         /\ IF config.enable_tax_bundler_filter = FALSE
              THEN /\ states' = MapSet(states, ev.mint, [s0 EXCEPT !.riskChecked = TRUE])
                   /\ UNCHANGED <<risks, riskInFlight>>
              ELSE /\ states' = MapSet(states, ev.mint, s0)
                   /\ riskInFlight' = enter.inFlight
                   /\ risks' = MapSet(risks, id,
                        [mint |-> ev.mint, pc |-> enter.pc, feeBps |-> Undef,
                         hasSig |-> ev.hasSig])

\* ------------------------------------------------------- the no-buy timer
\* The setTimeout callback of onPool: looks the mint up again and untracks
\* whatever TokenState is there if it has not bought.
\* A variant of the callback's test that ignores hasBought.
TimerFindsAny(st, m) == m \in DOMAIN st

\* Lines 186-187: `const s = this.states.get(id); if (s && !s.hasBought)`.
TimerFindsUnbought(st, m) == m \in DOMAIN st /\ ~st[m].hasBought

NoBuyTimerFire(t) ==
  /\ t \in timers
  /\ now >= t.fireAt
  /\ timers' = timers \ {t}
  /\ last' = [op |-> "noBuyTimer", mint |-> t.mint, exit |-> ""]
  /\ IF TimerFindsUnbought(states, t.mint)
       THEN /\ states' = StopTracking(states, t.mint)
            /\ unsub' = <<t.mint>>
       ELSE /\ UNCHANGED states
            /\ unsub' = <<>>
  /\ NoSignals
  /\ MLFixed
  /\ TraderIdle
  /\ ListenerIdle
  /\ UNCHANGED <<now, risks, riskInFlight, probes, devTokenCount, devLastTicker,
                 devBlacklist, nextId, nPrice, nManual>>

\* --------------------------------------------------------- risk assessment
\* Wake-up of the 50 ms sleep in the semaphore loop.
RiskWake(id) ==
  /\ id \in DOMAIN risks
  /\ risks[id].pc = "wait"
  /\ LET enter == RiskEnter(riskInFlight)
     IN /\ riskInFlight' = enter.inFlight
        /\ risks' = [risks EXCEPT ![id].pc = enter.pc]
  /\ last' = [op |-> "riskWake", mint |-> risks[id].mint, exit |-> ""]
  /\ unsub' = <<>>
  /\ NoSignals
  /\ MLFixed
  /\ TraderIdle
  /\ ListenerIdle
  /\ UNCHANGED <<now, states, timers, probes, devTokenCount, devLastTicker,
                 devBlacklist, nextId, nPrice, nManual>>

\* A fail-closed variant of the continuation: a token whose fee could not be
\* read (feeBps null) is filtered.
RiskThenFailClosed(st, id, m, feeBps, bundler) ==
  LET h == HolderOf(st, id)
      st1 == [x \in DOMAIN st |->
                IF x \in h
                  THEN [st[x] EXCEPT
                          !.transferFeeBps = IF feeBps # Undef THEN feeBps ELSE @,
                          !.riskChecked = TRUE,
                          !.isBundler = bundler]
                  ELSE st[x]]
      isFeeBlock == feeBps = Undef \/ feeBps > config.max_transfer_fee_bps
      isBundleBlock == bundler /\ ~config.allow_bundler
      block == isFeeBlock \/ isBundleBlock
  IN [states |-> IF block THEN StopTracking(st1, m) ELSE st1,
      unsub  |-> IF block THEN <<m>> ELSE <<>>]

\* A variant of the continuation that filters on the transfer fee only.
RiskThenFeeOnly(st, id, m, feeBps, bundler) ==
  LET h == HolderOf(st, id)
      st1 == [x \in DOMAIN st |->
                IF x \in h
                  THEN [st[x] EXCEPT
                          !.transferFeeBps = IF feeBps # Undef THEN feeBps ELSE @,
                          !.riskChecked = TRUE,
                          !.isBundler = bundler]
                  ELSE st[x]]
      block == feeBps # Undef /\ feeBps > config.max_transfer_fee_bps
  IN [states |-> IF block THEN StopTracking(st1, m) ELSE st1,
      unsub  |-> IF block THEN <<m>> ELSE <<>>]

\* The .then continuation of onPool on { feeBps, bundler }: it mutates the
\* captured stateRef object and calls stopTracking(id) by mint.
RiskThen(st, id, m, feeBps, bundler) ==
  LET h == HolderOf(st, id)
      st1 == [x \in DOMAIN st |->
                IF x \in h
                  THEN [st[x] EXCEPT
                          !.transferFeeBps = IF feeBps # Undef THEN feeBps ELSE @,
                          !.riskChecked = TRUE,
                          !.isBundler = bundler]
                  ELSE st[x]]
      isFeeBlock == feeBps # Undef /\ feeBps > config.max_transfer_fee_bps
      isBundleBlock == bundler /\ ~config.allow_bundler
      block == isFeeBlock \/ isBundleBlock
  IN [states |-> IF block THEN StopTracking(st1, m) ELSE st1,
      unsub  |-> IF block THEN <<m>> ELSE <<>>]

\* A variant of the end of assessTokenRisk that returns without
\* riskInFlight--.
RiskFinishNoRelease(id, feeBps, bundler) ==
  \E r \in {RiskThen(states, id, risks[id].mint, feeBps, bundler)} :
     /\ riskInFlight' = riskInFlight
     /\ risks' = MapDelete(risks, id)
     /\ states' = r.states
     /\ unsub' = r.unsub

\* The end of assessTokenRisk (riskInFlight--, return) and the continuation.
RiskFinish(id, feeBps, bundler) ==
  \E r \in {RiskThen(states, id, risks[id].mint, feeBps, bundler)} :
     /\ riskInFlight' = riskInFlight - 1
     /\ risks' = MapDelete(risks, id)
     /\ states' = r.states
     /\ unsub' = r.unsub

FeeResults == {Undef, 0, 100}

\* getAccountInfo returned (or threw: feeBps stays null).
RiskFeeDone(id, feeBps) ==
  /\ id \in DOMAIN risks
  /\ risks[id].pc = "fee"
  /\ IF risks[id].hasSig
       THEN /\ risks' = [risks EXCEPT ![id].pc = "tx", ![id].feeBps = feeBps]
            /\ unsub' = <<>>
            /\ UNCHANGED <<states, riskInFlight>>
       ELSE RiskFinish(id, feeBps, FALSE)
  /\ last' = [op |-> "riskFee", mint |-> risks[id].mint, exit |-> ""]
  /\ NoSignals
  /\ MLFixed
  /\ TraderIdle
  /\ ListenerIdle
  /\ UNCHANGED <<now, timers, probes, devTokenCount, devLastTicker,
                 devBlacklist, nextId, nPrice, nManual>>

\* getTransaction returned (or threw: bundler stays false).
RiskTxDone(id, bundler) ==
  /\ id \in DOMAIN risks
  /\ risks[id].pc = "tx"
  /\ RiskFinish(id, risks[id].feeBps, bundler)
  /\ last' = [op |-> "riskTx", mint |-> risks[id].mint, exit |-> ""]
  /\ NoSignals
  /\ MLFixed
  /\ TraderIdle
  /\ ListenerIdle
  /\ UNCHANGED <<now, timers, probes, devTokenCount, devLastTicker,
                 devBlacklist, nextId, nPrice, nManual>>

\* ----------------------------------------------------------- dev-exit probe
\* The .then continuation of hasDevExited in onPrice.
DevProbeDone(id, exited) ==
  /\ probes[id] > 0
  /\ probes' = [probes EXCEPT ![id] = @ - 1]
  /\ states' = [x \in DOMAIN states |->
                  IF exited /\ states[x].id = id
                    THEN [states[x] EXCEPT !.devSold = TRUE]
                    ELSE states[x]]
  /\ last' = [op |-> "devProbe", mint |-> 0, exit |-> ""]
  /\ unsub' = <<>>
  /\ NoSignals
  /\ MLFixed
  /\ TraderIdle
  /\ ListenerIdle
  /\ UNCHANGED <<now, timers, risks, riskInFlight, devTokenCount, devLastTicker,
                 devBlacklist, nextId, nPrice, nManual>>

\* ------------------------------------------------------------ dashboard
\* socket.on('manual_sell'): emits SELL on signals$ for the requested mint.
ManualSell(m) ==
  /\ nManual' = nManual + 1
  /\ emitted' = <<Signal(m, "SELL", "", Undef)>>
  /\ sells' = [sells EXCEPT ![m] = @ + 1]
  /\ pnlOut' = <<>>
  /\ unsub' = <<>>
  /\ last' = [op |-> "manualSell", mint |-> m, exit |-> ""]
  /\ MLFixed
  /\ TraderIdle
  /\ ListenerIdle
  /\ UNCHANGED <<now, states, timers, risks, riskInFlight, probes, devTokenCount,
                 devLastTicker, devBlacklist, profitSol, investedSol,
                 totalInvestedSol, nextId, buys, nPrice>>

\* -------------------------------------------------------------------- clock
Tick ==
  /\ now' = now + 1
  /\ last' = [op |-> "tick", mint |-> 0, exit |-> ""]
  /\ unsub' = <<>>
  /\ NoSignals
  /\ MLFixed
  /\ TraderIdle
  /\ ListenerIdle
  /\ UNCHANGED <<states, timers, risks, riskInFlight, probes, devTokenCount,
                 devLastTicker, devBlacklist, nextId, nPrice, nManual>>


\* ------------------------------------------------------------ price events
\* The arguments of onPrice.  Undef stands for an argument that is not a
\* number (liquidity, tokensCurve).
PriceEvent(m, price, sol, liquidity, wallet, side, tokensCurve) ==
  [mint |-> m, price |-> price, sol |-> sol, liquidity |-> liquidity,
   wallet |-> wallet, side |-> side, tokensCurve |-> tokensCurve]

\* percentChange(from, to)
percentChange(from, to) == Rat(to - from, from)

\* JavaScript truthiness of an optional number
Truthy(x) == x # Undef /\ x # 0

RECURSIVE SumSol(_)
SumSol(trades) ==
  IF trades = <<>> THEN 0
  ELSE IF Len(trades) = 1 THEN trades[1].sol
  ELSE LET h == Len(trades) \div 2
       IN SumSol(SubSeq(trades, 1, h)) + SumSol(SubSeq(trades, h + 1, Len(trades)))

\* A variant of the rolling window that never drops an entry.
InWindowKeepAll(seq, ts) == seq

\* Array.filter of the rolling window (timestamps in seconds)
InWindow(seq, ts) ==
  SelectSeq(seq, LAMBDA e : (ts - e.ts) * 1000 <= config.tps_window_ms)

\* Lines 235-253: curve size, liquidity and peak liquidity.
UpdateLiquidity(s, ev) ==
  LET s1 == IF s.initialTokens = Undef /\ ev.tokensCurve # Undef /\ ev.tokensCurve > 0
              THEN [s EXCEPT !.initialTokens = ev.tokensCurve] ELSE s
  IN IF ev.liquidity = Undef THEN s1
     ELSE [s1 EXCEPT !.liquidity = ev.liquidity,
                     !.peakLiquidity = IF ~Truthy(@) \/ ev.liquidity > @
                                         THEN ev.liquidity ELSE @]

BelowLiquidityFloor(ev) ==
  ev.liquidity # Undef /\ ev.liquidity < config.min_runtime_mcap_sol

\* Line 261-263: a sell by the dev wallet schedules a balance check now.
DevSellCheck(s, ev) ==
  IF s.devWallet # "" /\ ev.wallet = s.devWallet /\ ev.side = "sell"
    THEN [s EXCEPT !.nextDevCheck = now] ELSE s

\* Line 266: the condition under which hasDevExited is called.
ProbeDue(s) ==
  /\ ~s.devSold
  /\ s.devWallet # ""
  /\ (IF s.nextDevCheck = Undef THEN 0 ELSE s.nextDevCheck) <= now

\* Lines 254-302: volume, trades, dev-exit scheduling, wallets, EMA, ATR.
UpdateWindow(s, ev) ==
  LET sol == IF ev.sol = Undef THEN 0 ELSE ev.sol
      s1 == [s EXCEPT !.volumeSol = @ + sol,
                      !.trades = Append(@, [ts |-> now, sol |-> sol, wallet |-> ev.wallet])]
      s2 == DevSellCheck(s1, ev)
      s3 == IF ProbeDue(s2) THEN [s2 EXCEPT !.nextDevCheck = now + DEV_RECHECK_SEC] ELSE s2
      w1 == InWindow(s3.wallets, now)
      w2 == IF ev.wallet # "" THEN Append(w1, [addr |-> ev.wallet, ts |-> now]) ELSE w1
      tr == InWindow(s3.trades, now)
      n  == Len(tr)
      alphaShort == Rat(2 * config.tps_window_ms, config.ema_short_ms * n + config.tps_window_ms)
      alphaLong  == Rat(2 * config.tps_window_ms, config.ema_long_ms * n + config.tps_window_ms)
      P == RInt(ev.price)
      Ema(old, a) == IF ~RDefined(old) THEN P
                     ELSE RAdd(RMul(P, a), RMul(old, RSub(ROne, a)))
      trueRange == RInt(Abs(ev.price - s3.lastPrice))
      alphaAtr == Rat(2, config.atr_window_sec + 1)
      atr1 == IF s3.lastPrice = Undef THEN s3.atr
              ELSE IF ~RDefined(s3.atr) THEN trueRange
              ELSE RAdd(RMul(trueRange, alphaAtr), RMul(s3.atr, RSub(ROne, alphaAtr)))
  IN [s3 EXCEPT !.wallets = w2, !.trades = tr,
                !.emaShort = Ema(s3.emaShort, alphaShort),
                !.emaLong = Ema(s3.emaLong, alphaLong),
                !.atr = atr1,
                !.lastPrice = ev.price]

\* Lines 283-287: quantities derived from the rolling window.
Derived(s) ==
  LET n == Len(s.trades)
  IN [tradeCount    |-> n,
      tps           |-> Rat(n * 1000, config.tps_window_ms),
      windowVolume  |-> SumSol(s.trades),
      uniqueWallets |-> Cardinality({s.wallets[i].addr : i \in DOMAIN s.wallets}),
      avgSol        |-> IF n # 0 THEN Rat(SumSol(s.trades), n) ELSE RZero]

\* Lines 348-361 and 453-467: position open (the fields of the TokenState).
OpenPosition(s, price) ==
  [s EXCEPT !.entryPrice = price,
            !.entrySol = config.trade_size_sol,
            !.peakSinceEntry = price,
            !.noBuyTimer = Undef,
            !.hasBought = TRUE]

\* A variant of the ML entry condition without the !state.hasBought test.
MLEntryAgain(s, pBuyOk) == gbmBuy /\ pBuyOk

\* Line 347: the ML entry condition (pBuyOk: pBuy >= buyThreshold).
MLEntry(s, pBuyOk) == gbmBuy /\ ~s.hasBought /\ pBuyOk

\* Line 392: rug detection.
RugDetected(s) ==
  /\ s.hasBought
  /\ Truthy(s.peakLiquidity)
  /\ RLt(RInt(s.liquidity),
         RMul(RInt(s.peakLiquidity), RSub(ROne, config.rug_liquidity_drop_pct)))

\* A variant of the extrema update that stores the latest price in both.
TrackExtremaLatest(s, price) ==
  [s EXCEPT !.highestPrice = price, !.lowestPrice = price]

\* Lines 403-404: extrema.
TrackExtrema(s, price) ==
  [s EXCEPT !.highestPrice = IF price > @ THEN price ELSE @,
            !.lowestPrice = IF price < @ THEN price ELSE @]

\* Line 407-410: the ML exit condition (pSellOk: pSell >= sellThreshold).
MLExit(s, pSellOk) == s.hasBought /\ gbmSell /\ pSellOk

\* A variant of the entry guards that keeps only the TPS test.
HeuristicSkipTpsOnly(s, d) == RLt(d.tps, config.min_tps)

\* Lines 428-446: the guards of the heuristic entry that skip the event.
HeuristicSkip(s, d) ==
  \/ s.liquidity < config.min_liquidity_sol
  \/ s.volumeSol < config.min_volume_sol
  \/ /\ s.devWallet # ""
     /\ Truthy(GetOr(devBlacklist, s.devWallet, Undef))
     /\ GetOr(devBlacklist, s.devWallet, Undef) > now
  \/ RLt(d.tps, config.min_tps)
  \/ d.uniqueWallets < config.min_unique_wallets
  \/ RLt(RInt(config.max_avg_sol_per_tx), d.avgSol)

\* Lines 475-478: migration fill.
MigrationFill(s, ev) ==
  /\ Truthy(s.initialTokens)
  /\ ev.tokensCurve # Undef
  /\ RLe(config.migrate_fill_pct, RSub(ROne, Rat(ev.tokensCurve, s.initialTokens)))

\* Lines 519-530 and 545: the adaptive trail of the sell logic.
Trail(s, d) ==
  LET peak == s.peakSinceEntry
      extraTrail == RMin(<<3, 10>>,
                      RMax(RZero, RMul(RSub(RDiv(d.tps, config.min_tps), ROne),
                                       config.tps_trail_scale)))
      gainPct == IF Truthy(peak) THEN RSub(Rat(peak, s.entryPrice), ROne) ELSE RZero
      gainTrail == RMin(<<1, 2>>, RAdd(<<1, 10>>, RMul(gainPct, <<1, 10>>)))
      dynTrail == RAdd(RAdd(RAdd(config.base_trail_dd, extraTrail), gainTrail),
                       IF s.isExceptional THEN <<1, 10>> ELSE RZero)
      absTrail == IF RDefined(s.atr) /\ s.atr[1] # 0
                    THEN RMul(s.atr, RInt(config.atr_mult)) ELSE RZero
      allowedDrop == IF Truthy(peak) THEN RMax(absTrail, RMul(RInt(peak), dynTrail))
                                     ELSE RZero
      exitTps == IF RDefined(config.exit_tps) THEN config.exit_tps
                 ELSE RMax(ROne, RDiv(config.min_tps, <<2, 1>>))
  IN [gainPct |-> gainPct, dynTrail |-> dynTrail, allowedDrop |-> allowedDrop,
      exitTps |-> exitTps]

\* The outcome of one onPrice call on the TokenState s: the state object as
\* left by the call, whether stopTracking was called, the signals emitted,
\* whether a position was opened, and whether settlePosition was called.
Result(s, stop, sigs, bought, exit) ==
  [s |-> s, stop |-> stop, sigs |-> sigs, bought |-> bought, sold |-> exit # "",
   exit |-> exit]

Sell(s, ev, reason, exit, sigs, bought) ==
  Result(s, TRUE, Append(sigs, Signal(ev.mint, "SELL", reason, ev.price)), bought, exit)

\* A variant of the sell logic that tests the hard take-profit after the
\* EMA-cross, TPS-collapse and trailing exits.
SellLogicTakeProfitLast(s, ev, d, sigs, bought) ==
  IF pureML \/ ~Truthy(s.entryPrice) THEN Result(s, FALSE, sigs, bought, "")
  ELSE
    LET peak0 == IF s.peakSinceEntry = Undef THEN 0 ELSE s.peakSinceEntry
        s1 == IF ev.price > peak0 THEN [s EXCEPT !.peakSinceEntry = ev.price] ELSE s
        riseLowNow == percentChange(s1.lowestPrice, ev.price)
        s2 == IF ~s1.isExceptional /\ RLe(config.exceptional_momentum_pct, riseLowNow)
                THEN [s1 EXCEPT !.isExceptional = TRUE] ELSE s1
        pnl == percentChange(s2.entryPrice, ev.price)
        t == Trail(s2, d)
        gainSafe == config.disable_ema_tps_gain_pct
    IN IF /\ RLt(t.gainPct, gainSafe)
          /\ RDefined(s2.emaShort) /\ RDefined(s2.emaLong)
          /\ RLt(s2.emaShort, s2.emaLong)
         THEN Sell(s2, ev, "SL", "emaCross", sigs, bought)
       ELSE IF RLt(t.gainPct, gainSafe) /\ RLt(d.tps, t.exitTps)
         THEN Sell(s2, ev, "SL", "tpsCollapse", sigs, bought)
       ELSE IF /\ Truthy(s2.peakSinceEntry)
               /\ RLe(RInt(ev.price), RSub(RInt(s2.peakSinceEntry), t.allowedDrop))
         THEN Sell(s2, ev, "SL", "trailing", sigs, bought)
       ELSE IF RDefined(config.take_profit) /\ RLe(config.take_profit, pnl)
         THEN Sell(s2, ev, "TP", "takeProfit", sigs, bought)
       ELSE Result(s2, FALSE, sigs, bought, "")

\* A variant of the sell logic whose TPS-collapse exit compares the gain
\* with the constant 0.3.
SellLogicFixedGain(s, ev, d, sigs, bought) ==
  IF pureML \/ ~Truthy(s.entryPrice) THEN Result(s, FALSE, sigs, bought, "")
  ELSE
    LET peak0 == IF s.peakSinceEntry = Undef THEN 0 ELSE s.peakSinceEntry
        s1 == IF ev.price > peak0 THEN [s EXCEPT !.peakSinceEntry = ev.price] ELSE s
        riseLowNow == percentChange(s1.lowestPrice, ev.price)
        s2 == IF ~s1.isExceptional /\ RLe(config.exceptional_momentum_pct, riseLowNow)
                THEN [s1 EXCEPT !.isExceptional = TRUE] ELSE s1
        pnl == percentChange(s2.entryPrice, ev.price)
        t == Trail(s2, d)
        gainSafe == config.disable_ema_tps_gain_pct
    IN IF RDefined(config.take_profit) /\ RLe(config.take_profit, pnl)
         THEN Sell(s2, ev, "TP", "takeProfit", sigs, bought)
       ELSE IF /\ RLt(t.gainPct, gainSafe)
               /\ RDefined(s2.emaShort) /\ RDefined(s2.emaLong)
               /\ RLt(s2.emaShort, s2.emaLong)
         THEN Sell(s2, ev, "SL", "emaCross", sigs, bought)
       ELSE IF RLt(t.gainPct, <<3, 10>>) /\ RLt(d.tps, t.exitTps)
         THEN Sell(s2, ev, "SL", "tpsCollapse", sigs, bought)
       ELSE IF /\ Truthy(s2.peakSinceEntry)
               /\ RLe(RInt(ev.price), RSub(RInt(s2.peakSinceEntry), t.allowedDrop))
         THEN Sell(s2, ev, "SL", "trailing", sigs, bought)
       ELSE Result(s2, FALSE, sigs, bought, "")

\* Lines 488-577: sell logic.
SellLogic(s, ev, d, sigs, bought) ==
  IF pureML \/ ~Truthy(s.entryPrice) THEN Result(s, FALSE, sigs, bought, "")
  ELSE
    LET peak0 == IF s.peakSinceEntry = Undef THEN 0 ELSE s.peakSinceEntry
        s1 == IF ev.price > peak0 THEN [s EXCEPT !.peakSinceEntry = ev.price] ELSE s
        riseLowNow == percentChange(s1.lowestPrice, ev.price)
        s2 == IF ~s1.isExceptional /\ RLe(config.exceptional_momentum_pct, riseLowNow)
                THEN [s1 EXCEPT !.isExceptional = TRUE] ELSE s1
        pnl == percentChange(s2.entryPrice, ev.price)
        t == Trail(s2, d)
        gainSafe == config.disable_ema_tps_gain_pct
    IN IF RDefined(config.take_profit) /\ RLe(config.take_profit, pnl)
         THEN Sell(s2, ev, "TP", "takeProfit", sigs, bought)
       ELSE IF /\ RLt(t.gainPct, gainSafe)
               /\ RDefined(s2.emaShort) /\ RDefined(s2.emaLong)
               /\ RLt(s2.emaShort, s2.emaLong)
         THEN Sell(s2, ev, "SL", "emaCross", sigs, bought)
       ELSE IF RLt(t.gainPct, gainSafe) /\ RLt(d.tps, t.exitTps)
         THEN Sell(s2, ev, "SL", "tpsCollapse", sigs, bought)
       ELSE IF /\ Truthy(s2.peakSinceEntry)
               /\ RLe(RInt(ev.price), RSub(RInt(s2.peakSinceEntry), t.allowedDrop))
         THEN Sell(s2, ev, "SL", "trailing", sigs, bought)
       ELSE Result(s2, FALSE, sigs, bought, "")

\* Lines 420-472: heuristic entry.
HeuristicEntry(s, ev, d, sigs, bought) ==
  IF now - s.createdAt > config.token_max_age
    THEN Result(s, TRUE, sigs, bought, "")
  ELSE IF HeuristicSkip(s, d)
    THEN Result(s, FALSE, sigs, bought, "")
  ELSE IF RLe(config.exceptional_momentum_pct, percentChange(s.lowestPrice, ev.price))
    THEN Result([OpenPosition(s, ev.price) EXCEPT !.isExceptional = TRUE], FALSE,
                Append(sigs, Signal(ev.mint, "BUY", "", ev.price)), TRUE, "")
  ELSE Result(s, FALSE, sigs, bought, "")

\* A variant of the first-token gate that lets every token through.
SkipFirstNever(s) == FALSE

\* Lines 331-332: `skipFirst && state.devFirstToken`.
SkipFirst(s) == config.skip_dev_first_token /\ s.devFirstToken

\* Lines 326-577 of onPrice, after the window update.
Decide(s, ev, d, pBuyOk, pSellOk) ==
  IF ~s.riskChecked THEN Result(s, FALSE, <<>>, FALSE, "")
  ELSE IF SkipFirst(s)
    THEN Result(s, TRUE, <<>>, FALSE, "")
  ELSE IF config.require_dev_sold /\ ~s.devSold
    THEN Result(s, FALSE, <<>>, FALSE, "")
  ELSE
    LET bought == MLEntry(s, pBuyOk)
        s1 == IF bought THEN OpenPosition(s, ev.price) ELSE s
        sigs == IF bought THEN <<Signal(ev.mint, "BUY", "", ev.price)>> ELSE <<>>
        s2 == TrackExtrema(s1, ev.price)
    IN IF RugDetected(s1) THEN Sell(s1, ev, "SL", "rug", sigs, bought)
       ELSE IF MLExit(s2, pSellOk) THEN Sell(s2, ev, "TP", "mlSell", sigs, bought)
       ELSE IF ~s2.hasBought /\ ~pureML THEN HeuristicEntry(s2, ev, d, sigs, bought)
       ELSE IF MigrationFill(s2, ev) THEN Sell(s2, ev, "TP", "migration", sigs, bought)
       ELSE SellLogic(s2, ev, d, sigs, bought)

\* A variant of settlePosition that leaves investedSol as it is.
settleKeepInvested(s, exitPrice, profit, invested) ==
  IF Truthy(s.entryPrice) /\ Truthy(s.entrySol)
    THEN LET p == RAdd(profit, Rat(s.entrySol * (exitPrice - s.entryPrice),
                                   s.entryPrice))
         IN [profitSol |-> p, investedSol |-> invested, pnl |-> <<p>>]
    ELSE [profitSol |-> profit, investedSol |-> invested, pnl |-> <<>>]

\* A variant of settlePosition that measures the gain from the lowest price
\* seen instead of the entry price.
settleFromLow(s, exitPrice, profit, invested) ==
  IF Truthy(s.entryPrice) /\ Truthy(s.entrySol)
    THEN LET p == RAdd(profit, Rat(s.entrySol * (exitPrice - s.lowestPrice),
                                   s.lowestPrice))
             inv == IF invested - s.entrySol > 0 THEN invested - s.entrySol ELSE 0
         IN [profitSol |-> p, investedSol |-> inv, pnl |-> <<p>>]
    ELSE [profitSol |-> profit, investedSol |-> invested, pnl |-> <<>>]

\* settlePosition(id, state, exitPrice): the new (profitSol, investedSol) and
\* the pnl$ emissions.
settlePosition(s, exitPrice, profit, invested) ==
  IF Truthy(s.entryPrice) /\ Truthy(s.entrySol)
    THEN LET pnlSol == Rat(s.entrySol * (exitPrice - s.entryPrice), s.entryPrice)
             p == RAdd(profit, pnlSol)
             inv == IF invested - s.entrySol > 0 THEN invested - s.entrySol ELSE 0
         IN [profitSol |-> p, investedSol |-> inv, pnl |-> <<p>>]
    ELSE [profitSol |-> profit, investedSol |-> invested, pnl |-> <<>>]

Count(sigs, action) == Cardinality({i \in DOMAIN sigs : sigs[i].action = action})

\* Everything one onPrice call on a tracked mint writes, computed from the
\* current state: the liquidity floor, the dev-sell probe, the window update,
\* the decision, and the accounting of a BUY and of a settled SELL.
OnPriceOutcome(ev, pBuyOk, pSellOk) ==
  LET m == ev.mint
      s0 == UpdateLiquidity(states[m], ev)
  IN
  IF BelowLiquidityFloor(ev)
    THEN [states |-> StopTracking(states, m), unsub |-> <<m>>, sigs |-> <<>>,
          probes |-> probes, timers |-> timers, devBlacklist |-> devBlacklist,
          totalInvestedSol |-> totalInvestedSol, investedSol |-> investedSol,
          profitSol |-> profitSol, pnl |-> <<>>, exit |-> ""]
    ELSE
      LET probe == ProbeDue(DevSellCheck(s0, ev))
          s1 == UpdateWindow(s0, ev)
          r == Decide(s1, ev, Derived(s1), pBuyOk, pSellOk)
          inv1 == IF r.bought THEN investedSol + r.s.entrySol ELSE investedSol
          st == IF r.sold THEN settlePosition(r.s, ev.price, profitSol, inv1)
                ELSE [profitSol |-> profitSol, investedSol |-> inv1, pnl |-> <<>>]
      IN [states |-> IF r.stop THEN StopTracking(states, m)
                     ELSE [states EXCEPT ![m] = r.s],
          unsub |-> IF r.stop THEN <<m>> ELSE <<>>,
          sigs |-> r.sigs,
          probes |-> IF probe THEN [probes EXCEPT ![s0.id] = @ + 1] ELSE probes,
          timers |-> IF r.bought /\ s1.noBuyTimer # Undef
                       THEN {t \in timers : t.id # s1.noBuyTimer} ELSE timers,
          devBlacklist |-> IF r.bought /\ s1.devWallet # ""
                             THEN MapSet(devBlacklist, s1.devWallet,
                                         now + config.dev_blacklist_sec)
                             ELSE devBlacklist,
          totalInvestedSol |-> IF r.bought THEN totalInvestedSol + r.s.entrySol
                               ELSE totalInvestedSol,
          investedSol |-> st.investedSol,
          profitSol |-> st.profitSol,
          pnl |-> st.pnl,
          exit |-> r.exit]

\* onPrice(mint, price, volumeSol, liquidity, wallet, side, tokensCurve)
OnPriceCall(ev, pBuyOk, pSellOk) ==
  /\ ev.mint \in DOMAIN states
  /\ nPrice' = nPrice + 1
  /\ MLFixed
  /\ TraderIdle
  /\ UNCHANGED <<now, risks, riskInFlight, devTokenCount, devLastTicker, nextId, nManual>>
  /\ \E out \in {OnPriceOutcome(ev, pBuyOk, pSellOk)} :
       /\ states' = out.states
       /\ unsub' = out.unsub
       /\ emitted' = out.sigs
       /\ buys' = [buys EXCEPT ![ev.mint] = @ + Count(out.sigs, "BUY")]
       /\ sells' = [sells EXCEPT ![ev.mint] = @ + Count(out.sigs, "SELL")]
       /\ probes' = out.probes
       /\ timers' = out.timers
       /\ devBlacklist' = out.devBlacklist
       /\ totalInvestedSol' = out.totalInvestedSol
       /\ investedSol' = out.investedSol
       /\ profitSol' = out.profitSol
       /\ pnlOut' = out.pnl
       /\ last' = [op |-> "onPrice", mint |-> ev.mint, exit |-> out.exit]

\* The call made from a test or a replay: the listener is not involved.
OnPrice(ev, pBuyOk, pSellOk) ==
  /\ OnPriceCall(ev, pBuyOk, pSellOk)
  /\ ListenerIdle

\* A price event for a mint that has no TokenState returns at line 232.
OnPriceUntrackedCall(m) ==
  /\ m \notin DOMAIN states
  /\ last' = [op |-> "onPrice", mint |-> m, exit |-> ""]
  /\ unsub' = <<>>
  /\ NoSignals
  /\ MLFixed
  /\ TraderIdle
  /\ UNCHANGED <<now, states, timers, risks, riskInFlight, probes, devTokenCount,
                 devLastTicker, devBlacklist, nextId, nPrice, nManual>>

OnPriceUntracked(m) ==
  /\ OnPriceUntrackedCall(m)
  /\ ListenerIdle

\* ------------------------------------------------- JitoListener handlers
\* A transaction update of the Geyser feed, reduced to what handleMessage
\* reads: the mint of postTokenBalances[0], the fee payer's balance change
\* and the token amount change.  The server sends an update, identified here
\* by id, to every subscription that is open when the transaction lands.
GeyserUpdates ==
  [id : 1..MaxUpdates, mint : Mints, solChange : {-3, 0, 3}, tokenChange : {0, 1}]

\* handleMessage(update), lines 75-134: the events it passes to prices$.next,
\* none or one.  Every published event carries liquidity 0 and
\* tokensCurve 0 (lines 126, 129).
HandleMessage(u) ==
  LET price == IF u.solChange # 0 /\ u.tokenChange # 0
                 THEN Abs(u.solChange) \div Abs(u.tokenChange) ELSE 0
  IN IF u.mint \notin tracked \/ u.tokenChange = 0 THEN <<>>
     ELSE IF price = 0 THEN <<>>
     ELSE <<PriceEvent(u.mint, price, u.solChange, 0, "W",
                       IF u.solChange < 0 THEN "buy" ELSE "sell", 0)>>

\* What a listener handler that publishes nothing leaves alone.
StrategyIdle ==
  /\ unsub' = <<>>
  /\ NoSignals
  /\ MLFixed
  /\ TraderIdle
  /\ UNCHANGED <<now, states, timers, risks, riskInFlight, probes, devTokenCount,
                 devLastTicker, devBlacklist, nextId, nPrice, nManual>>

\* The 'data' handler of stream i receives update u: handleMessage, and for
\* a published event the prices$ subscriber of main, strategy.onPrice.
StreamData(i, u, pBuyOk, pSellOk) ==
  /\ i \in DOMAIN geyser.streams
  /\ Delivering(geyser.streams[i])
  /\ [update |-> u, stream |-> i] \in geyser.inFlight
  /\ tracked' = tracked
  /\ LET evs == HandleMessage(u)
         rest == geyser.inFlight \ {[update |-> u, stream |-> i]}
     IN IF evs = <<>>
          THEN /\ geyser' = [geyser EXCEPT !.inFlight = rest]
               /\ last' = [op |-> "data", mint |-> u.mint, exit |-> "dropped"]
               /\ StrategyIdle
          ELSE /\ geyser' = [geyser EXCEPT
                               !.inFlight = rest,
                               !.published = Append(@, [update |-> u.id,
                                                        stream |-> i])]
               /\ IF u.mint \in DOMAIN states
                    THEN OnPriceCall(evs[1], pBuyOk, pSellOk)
                    ELSE OnPriceUntrackedCall(u.mint)

\* The Geyser server sends the next transaction update on every open
\* subscription.
GeyserSend(u) ==
  /\ u.id = geyser.sent + 1
  /\ geyser' = [geyser EXCEPT
                  !.sent = u.id,
                  !.inFlight = @ \cup {[update |-> u, stream |-> i] :
                                         i \in {k \in DOMAIN geyser.streams :
                                                  Delivering(geyser.streams[k])}}]
  /\ last' = [op |-> "send", mint |-> u.mint, exit |-> ""]
  /\ tracked' = tracked
  /\ StrategyIdle

\* The 'error' handler of stream i: log, setTimeout(() => this.start(), 5000).
StreamError(i) ==
  /\ i \in DOMAIN geyser.streams
  /\ Delivering(geyser.streams[i])
  /\ geyser' = [geyser EXCEPT !.streams[i].errored = TRUE, !.reconnects = @ + 1]
  /\ last' = [op |-> "streamError", mint |-> 0, exit |-> ""]
  /\ tracked' = tracked
  /\ StrategyIdle

\* The 'end' handler of stream i: the same timer, whether or not the
\* stream's 'error' handler has already set one.
StreamEnd(i) ==
  /\ i \in DOMAIN geyser.streams
  /\ ~geyser.streams[i].ended
  /\ geyser' = [geyser EXCEPT !.streams[i].ended = TRUE, !.reconnects = @ + 1]
  /\ last' = [op |-> "streamEnd", mint |-> 0, exit |-> ""]
  /\ tracked' = tracked
  /\ StrategyIdle

\* A reconnect timer fires: start().
Reconnect ==
  /\ geyser.reconnects > 0
  /\ geyser' = Start([geyser EXCEPT !.reconnects = @ - 1])
  /\ last' = [op |-> "start", mint |-> 0, exit |-> ""]
  /\ tracked' = tracked
  /\ StrategyIdle

\* Whether a loaded model's prediction reaches its threshold is decided by
\* the model file and the features: either outcome.  Without a model the
\* comparison is never made.
Predictions(loaded) == IF loaded THEN BOOLEAN ELSE {FALSE}

\* ------------------------------------------------------------ specification
\* The price events of the engine specification: quiet trades at two prices,
\* a trade below the liquidity floor, a sell by the dev wallet, and a trade
\* that nearly empties the curve.
EnginePrices(m) ==
  {PriceEvent(m, 1, 1, 100, "W", "buy", 1000),
   PriceEvent(m, 3, 1, 100, "W", "buy", 1000),
   PriceEvent(m, 3, 1, 20, "W", "buy", 1000),
   PriceEvent(m, 3, 1, 100, "D", "sell", 1000),
   PriceEvent(m, 3, 1, 100, "W", "buy", 20)}

\* The engine under the default gates: admission, the no-buy timer, risk
\* assessment, dev-exit probes, price events, the dashboard and the clock.
\* With at most MaxAdmissions < MAX_RISK_CONCURRENCY assessments no call
\* ever waits on the semaphore; SpecRisk covers the waiting.
Next ==
  \/ \E ev \in PoolEvents(Mints, Devs) : nextId <= MaxAdmissions /\ OnPool(ev)
  \/ \E t \in timers : NoBuyTimerFire(t)
  \/ \E id \in DOMAIN risks, f \in FeeResults : RiskFeeDone(id, f)
  \/ \E id \in DOMAIN risks, b \in BOOLEAN : RiskTxDone(id, b)
  \/ \E id \in Ids, x \in BOOLEAN : DevProbeDone(id, x)
  \/ \E m \in Mints : nManual < MaxManualSells /\ ManualSell(m)
  \/ \E m \in Mints : \E ev \in EnginePrices(m), pb \in Predictions(gbmBuy),
                            ps \in Predictions(gbmSell) :
        nPrice < MaxPriceEvents /\ OnPrice(ev, pb, ps)
  \/ \E m \in Mints : OnPriceUntracked(m)
  \/ now < MaxTime /\ Tick

Spec == Init /\ [][Next]_vars

\* Trading with the gates off and tokens without a dev wallet: every admitted
\* token passes the pre-entry gates, so entries and every exit path are a few
\* price events away.
TradePrices(m) ==
  {PriceEvent(m, p, 1, 100, "W", "buy", 1000) : p \in {1, 3, 4, 6}}
    \cup {PriceEvent(m, 3, 1, 20, "W", "buy", 1000),
          PriceEvent(m, 3, 1, 50, "W", "buy", 1000),
          PriceEvent(m, 3, 1, 100, "W", "buy", 20)}

NextTrade ==
  \/ \E ev \in PoolEvents(Mints, {""}) :
        nextId <= MaxTradeAdmissions /\ ~ev.hasSig /\ ev.age = 0 /\ OnPool(ev)
  \/ \E t \in timers : NoBuyTimerFire(t)
  \/ \E m \in Mints : \E ev \in TradePrices(m), pb \in Predictions(gbmBuy),
                            ps \in Predictions(gbmSell) :
        nPrice < MaxTradePrices /\ OnPrice(ev, pb, ps)
  \/ now < MaxTradeTime /\ Tick

InitTrade == InitWith({TradeConfig}, MLConfigs)

SpecTrade == InitTrade /\ [][NextTrade]_vars

\* The risk semaphore: more concurrent admissions than MAX_RISK_CONCURRENCY.
NextRisk ==
  \/ \E ev \in PoolEvents(RiskMints, Devs) :
        /\ nextId <= NumRiskMints /\ ev.mint = nextId /\ ev.age = 0 /\ ev.hasSig
        /\ OnPool(ev)
  \/ \E id \in DOMAIN risks : RiskWake(id)
  \/ \E id \in DOMAIN risks, f \in {0} : RiskFeeDone(id, f)
  \/ \E id \in DOMAIN risks, b \in {FALSE} : RiskTxDone(id, b)

InitRisk == InitWith({BaseConfig}, {<<FALSE, FALSE, FALSE>>})

SpecRisk == InitRisk /\ [][NextRisk]_vars

\* Pure-ML trading (lgbm_enabled, pure_ml: true) with both models loaded and
\* every prediction at or above its threshold (a buy model scoring 0.8, a
\* sell model scoring 0.9, thresholds 0.5).  The tax/bundler filter is on, so
\* a price event passes the pre-entry gates only after the risk assessment.
PureMLConfig ==
  [BaseConfig EXCEPT !.skip_dev_first_token = FALSE,
                     !.require_dev_sold = FALSE]

NextPureML ==
  \/ \E ev \in PoolEvents(Mints, {""}) : nextId <= MaxAdmissions /\ OnPool(ev)
  \/ \E t \in timers : NoBuyTimerFire(t)
  \/ \E id \in DOMAIN risks, f \in FeeResults : RiskFeeDone(id, f)
  \/ \E id \in DOMAIN risks, b \in BOOLEAN : RiskTxDone(id, b)
  \/ \E m \in Mints : \E ev \in TradePrices(m) :
        nPrice < MaxPriceEvents /\ OnPrice(ev, TRUE, TRUE)
  \/ now < MaxTime /\ Tick

InitPureML == InitWith({PureMLConfig}, {<<TRUE, TRUE, TRUE>>})

SpecPureML == InitPureML /\ [][NextPureML]_vars

\* The Trader alone, under every combination of paper and use_jito, fed any
\* sequence of BUY and SELL signals.
TraderSignals == [action : {"BUY", "SELL"}, mint : Mints]

NextTrader ==
  \/ \E sig \in TraderSignals : trader.nSignals < MaxSignals /\ TraderOnSignal(sig)
  \/ \E i \in DOMAIN trader.validating, ok \in BOOLEAN : TraderValidateDone(i, ok)

InitTrader ==
  InitFrom({BaseConfig}, {<<FALSE, FALSE, FALSE>>}, {ModelsPresent},
           BOOLEAN \X BOOLEAN)

SpecTrader == InitTrader /\ [][NextTrader]_vars

\* Construction with lgbm_enabled under every state of the two model files
\* and either value of pure_ml, followed by trading with the gates off.
LoadConfigs ==
  {[lgbm_enabled |-> TRUE, pure_ml |-> p] @@ TradeConfig : p \in BOOLEAN}

ModelFileStates == [buy : {"ok", "absent", "corrupt"}, sell : {"ok", "absent", "corrupt"}]

InitLoad ==
  /\ InitFrom(LoadConfigs, BOOLEAN \X BOOLEAN \X BOOLEAN, ModelFileStates,
              {PaperTrading})
  /\ <<gbmBuy, gbmSell, pureML>> = LoadModels(config, modelFiles)

NextLoad ==
  \/ \E ev \in PoolEvents(Mints, {""}) :
        nextId <= MaxTradeAdmissions /\ ~ev.hasSig /\ ev.age = 0 /\ OnPool(ev)
  \/ \E t \in timers : NoBuyTimerFire(t)
  \/ \E m \in Mints : \E ev \in TradePrices(m), pb \in Predictions(gbmBuy),
                            ps \in Predictions(gbmSell) :
        nPrice < MaxLoadPrices /\ OnPrice(ev, pb, ps)
  \/ now < MaxTradeTime /\ Tick

SpecLoad == InitLoad /\ [][NextLoad]_vars

\* The heuristic engine of Spec with the scheduling assumption of the risk
\* assessment: every RPC call of an assessment in progress eventually
\* returns or throws (the awaits at lines 616 and 631 settle).
InitAssess == InitWith({BaseConfig}, {<<FALSE, FALSE, FALSE>>})

RpcCompletes(id) ==
  \/ \E f \in FeeResults : RiskFeeDone(id, f)
  \/ \E b \in BOOLEAN : RiskTxDone(id, b)

SpecAssess ==
  /\ InitAssess
  /\ [][Next]_vars
  /\ \A id \in 1..MaxAdmissions : WF_vars(RpcCompletes(id))

\* The risk semaphore with RPC calls that succeed or throw, under the
\* scheduling the claim assumes: every pending RPC call settles and every
\* 50 ms sleep of the waiting loop ends.  The first two pool events carry a
\* create signature (their assessments make both RPC calls), the others
\* make the fee call only.
NextSemaphore ==
  \/ \E ev \in PoolEvents(RiskMints, Devs) :
        /\ nextId <= NumRiskMints /\ ev.mint = nextId /\ ev.age = 0
        /\ ev.hasSig <=> ev.mint <= 2
        /\ OnPool(ev)
  \/ \E id \in DOMAIN risks : RiskWake(id)
  \/ \E id \in DOMAIN risks, f \in {Undef, 0} : RiskFeeDone(id, f)
  \/ \E id \in DOMAIN risks, b \in {FALSE} : RiskTxDone(id, b)

SemaphoreProgress(id) ==
  \/ RiskWake(id)
  \/ \E f \in {Undef, 0} : RiskFeeDone(id, f)
  \/ RiskTxDone(id, FALSE)

SpecSemaphore ==
  /\ InitRisk
  /\ [][NextSemaphore]_vars
  /\ \A id \in 1..NumRiskMints : WF_vars(SemaphoreProgress(id))

\* The engine of Spec with the dev gates off, the risk filter on and both
\* models loaded: a token of a known dev can be bought while a further pool
\* event for its mint may still arrive.
InitAdmit == InitWith({PureMLConfig}, {<<TRUE, TRUE, FALSE>>})

SpecAdmit == InitAdmit /\ [][Next]_vars

\* The heuristic entry with every guard able to fail: tokens of dev D (so
\* that a BUY blacklists the dev), thresholds on liquidity, volume, wallets
\* and average trade size, and price events that each miss one of them.
HeuristicConfig ==
  [TradeConfig EXCEPT !.min_liquidity_sol = 60,
                      !.min_volume_sol = 2,
                      !.min_unique_wallets = 2,
                      !.max_avg_sol_per_tx = 1]

HeuristicPrices(m) ==
  {PriceEvent(m, 1, 1, 100, "W", "buy", 1000),
   PriceEvent(m, 3, 1, 100, "V", "buy", 1000),
   PriceEvent(m, 1, 0, 100, "W", "buy", 1000),
   PriceEvent(m, 3, 3, 100, "V", "buy", 1000),
   PriceEvent(m, 3, 1, 50, "V", "buy", 1000),
   PriceEvent(m, 3, 1, 100, "W", "buy", 1000),
   PriceEvent(m, 3, 1, 20, "W", "buy", 1000)}

NextHeuristic ==
  \/ \E ev \in PoolEvents(Mints, Devs) :
        nextId <= MaxTradeAdmissions /\ ~ev.hasSig /\ ev.age = 0 /\ OnPool(ev)
  \/ \E t \in timers : NoBuyTimerFire(t)
  \/ \E m \in Mints : \E ev \in HeuristicPrices(m), pb \in Predictions(gbmBuy),
                            ps \in Predictions(gbmSell) :
        nPrice < MaxHeuristicPrices /\ OnPrice(ev, pb, ps)
  \/ \E id \in Ids : DevProbeDone(id, FALSE)
  \/ now < MaxTradeTime /\ Tick

InitHeuristic == InitWith({HeuristicConfig}, {<<FALSE, FALSE, FALSE>>})

SpecHeuristic == InitHeuristic /\ [][NextHeuristic]_vars

\* The exits of the sell logic with the EMA / TPS exits enabled up to a gain
\* of +50 %, and the hard take-profit either at +1/3 (below that bound, so
\* that it competes with them) or not configured.
ExitConfigs ==
  {[TradeConfig EXCEPT !.disable_ema_tps_gain_pct = <<1, 2>>,
                       !.take_profit = tp] : tp \in {<<1, 3>>, RUndef}}

NextExit ==
  \/ \E ev \in PoolEvents(Mints, Devs) :
        nextId <= MaxTradeAdmissions /\ ~ev.hasSig /\ ev.age = 0 /\ OnPool(ev)
  \/ \E t \in timers : NoBuyTimerFire(t)
  \/ \E m \in Mints : \E ev \in TradePrices(m), pb \in Predictions(gbmBuy),
                            ps \in Predictions(gbmSell) :
        nPrice < MaxTradePrices /\ OnPrice(ev, pb, ps)
  \/ \E id \in Ids : DevProbeDone(id, FALSE)
  \/ now < MaxTradeTime /\ Tick

InitExit == InitWith(ExitConfigs, {<<FALSE, FALSE, FALSE>>})

SpecExit == InitExit /\ [][NextExit]_vars

\* Admission with both market-cap filters able to fail: pool events below,
\* inside and above [min_initial_mcap, max_initial_liquidity_sol], of any
\* age, under the default gates.
FilterConfig ==
  [BaseConfig EXCEPT !.min_initial_mcap = 50,
                     !.max_initial_liquidity_sol = 150]

FilterPoolEvents ==
  [ mint        : Mints,
    devWallet   : Devs,
    symbol      : Symbols,
    age         : {0, config.token_max_age + 1},
    initialMcap : {10, 100, 200},
    hasSig      : BOOLEAN ]

NextFilter ==
  \/ \E ev \in FilterPoolEvents : nextId <= MaxAdmissions /\ OnPool(ev)
  \/ \E t \in timers : NoBuyTimerFire(t)
  \/ \E id \in DOMAIN risks, f \in FeeResults : RiskFeeDone(id, f)
  \/ \E id \in DOMAIN risks, b \in BOOLEAN : RiskTxDone(id, b)
  \/ \E id \in Ids, x \in BOOLEAN : DevProbeDone(id, x)
  \/ \E m \in Mints : \E ev \in EnginePrices(m), pb \in Predictions(gbmBuy),
                            ps \in Predictions(gbmSell) :
        nPrice < MaxPriceEvents /\ OnPrice(ev, pb, ps)
  \/ now < MaxTime /\ Tick

InitFilter == InitWith({FilterConfig}, {<<FALSE, FALSE, FALSE>>})

SpecFilter == InitFilter /\ [][NextFilter]_vars

\* GbmPredictor alone: an ensemble of up to MaxTrees trees (single leaves,
\* stumps with or without split_feature and threshold, and one tree of depth
\* two), with init_score absent, 0 or 3, asked to predict feature vectors of
\* up to MaxFeatures entries.
Leaf(v) == [leaf_value |-> {v}]

Split(f, thr, l, r) ==
  [leaf_value |-> {}, split_feature |-> f, threshold |-> thr,
   left_child |-> l, right_child |-> r]

Trees ==
  {Leaf(v) : v \in {-1, 2}}
    \cup {Split(f, thr, Leaf(-1), Leaf(2)) : f \in {{}, {0}, {1}}, thr \in {{}, {1}}}
    \cup {Split({0}, {1}, Split({1}, {0}, Leaf(5), Leaf(-3)), Leaf(7))}

Ensembles == UNION {[1..n -> Trees] : n \in 1..MaxTrees}

BoosterDumps ==
  {[tree_info |-> e] : e \in Ensembles}
    \cup {[init_score |-> i, tree_info |-> e] : i \in {0, 3}, e \in Ensembles}

FeatureVectors == UNION {[1..n -> {0, 1, 2}] : n \in 0..MaxFeatures}

InitPredict ==
  /\ InitEngine({BaseConfig}, {<<TRUE, TRUE, FALSE>>}, {ModelsPresent}, {PaperTrading})
  /\ predictor \in {NewPredictor(d) : d \in BoosterDumps}
  /\ geyser = NewListener

NextPredict ==
  \E feats \in FeatureVectors : predictor.calls < MaxPredictCalls /\ Predict(feats)

SpecPredict == InitPredict /\ [][NextPredict]_vars

\* Two mints of the same dev wallet, every entry gate off, so that a second
\* token of the dev is offered to both entry paths while the blacklist entry
\* written by the first BUY (lines 357-358, 462-463) has not expired.
CooldownMints == {1, 2}

CooldownPrices(m) ==
  {PriceEvent(m, p, 1, 100, "W", "buy", 1000) : p \in {1, 3}}

NextCooldown ==
  \/ \E ev \in PoolEvents(CooldownMints, Devs) :
        /\ nextId <= MaxTradeAdmissions
        /\ ~ev.hasSig /\ ev.age = 0
        /\ OnPool(ev)
  \/ \E t \in timers : NoBuyTimerFire(t)
  \/ \E m \in CooldownMints :
        \E ev \in CooldownPrices(m), pb \in Predictions(gbmBuy),
           ps \in Predictions(gbmSell) :
          nPrice < MaxTradePrices /\ OnPrice(ev, pb, ps)
  \/ now < MaxTradeTime /\ Tick

InitCooldown ==
  InitWith({TradeConfig}, {<<FALSE, FALSE, FALSE>>, <<TRUE, TRUE, FALSE>>})

SpecCooldown == InitCooldown /\ [][NextCooldown]_vars


\* The listener after main has called jito.start(), with streams that fail
\* and end.  The pool events are ones onPool rejects by age, so the strategy
\* keeps no TokenState while main's trackMint adds their mints to tracked.
InitStarted(configs, mlConfigs) ==
  /\ InitEngine(configs, mlConfigs, {ModelsPresent}, {PaperTrading})
  /\ predictor = NewPredictor([tree_info |-> <<>>])
  /\ geyser = Start(NewListener)

InitListener == InitStarted({BaseConfig}, {<<FALSE, FALSE, FALSE>>})

NextListener ==
  \/ \E ev \in PoolEvents(Mints, {""}) :
        ~ev.hasSig /\ ev.age > config.token_max_age /\ OnPool(ev)
  \/ \E i \in DOMAIN geyser.streams : StreamError(i)
  \/ \E i \in DOMAIN geyser.streams : StreamEnd(i)
  \/ Len(geyser.streams) < MaxStreams /\ Reconnect
  \/ \E u \in GeyserUpdates : GeyserSend(u)
  \/ \E i \in DOMAIN geyser.streams, u \in GeyserUpdates :
        StreamData(i, u, FALSE, FALSE)

SpecListener == InitListener /\ [][NextListener]_vars

\* The entry-point wiring with the default configuration: pool events from
\* the scanner, price events from the one Geyser stream, RPC results, timers.
InitWired == InitStarted({BaseConfig}, MLConfigs)

NextWired ==
  \/ \E ev \in PoolEvents(Mints, Devs) :
        nextId <= MaxAdmissions /\ OnPool(ev)
  \/ \E t \in timers : NoBuyTimerFire(t)
  \/ \E id \in DOMAIN risks, f \in FeeResults : RiskFeeDone(id, f)
  \/ \E id \in DOMAIN risks, b \in BOOLEAN : RiskTxDone(id, b)
  \/ \E u \in GeyserUpdates : GeyserSend(u)
  \/ \E u \in GeyserUpdates, pb \in Predictions(gbmBuy),
        ps \in Predictions(gbmSell) : StreamData(1, u, pb, ps)
  \/ now < MaxTime /\ Tick

SpecWired == InitWired /\ [][NextWired]_vars

\* A token under heavy trading: every numeric parameter at the default the
\* code gives it (`?? default`, take_profit and exit_tps unset), the entry
\* gates off.  The price stays at 1 while the rolling window fills and then
\* jumps to 5; the clock stays within the window's first second.
TrailConfig ==
  [TradeConfig EXCEPT
     !.token_max_age = 600, !.no_trade_timeout_sec = 60,
     !.min_runtime_mcap_sol = 30, !.tps_window_ms = 4000,
     !.ema_short_ms = 4000, !.ema_long_ms = 12000, !.atr_window_sec = 20,
     !.trade_size_sol = 500, !.dev_blacklist_sec = 3600,
     !.rug_liquidity_drop_pct = <<2, 5>>, !.min_liquidity_sol = 0,
     !.min_volume_sol = 0, !.min_tps = <<5, 1>>, !.min_unique_wallets = 0,
     !.max_avg_sol_per_tx = 2, !.exceptional_momentum_pct = <<2, 1>>,
     !.migrate_fill_pct = <<97, 100>>, !.take_profit = RUndef,
     !.base_trail_dd = <<1, 5>>, !.tps_trail_scale = <<1, 25>>,
     !.atr_mult = 3, !.disable_ema_tps_gain_pct = <<3, 10>>,
     !.exit_tps = RUndef]

TrailPrices(m) ==
  {PriceEvent(m, IF nPrice < MaxTrailPrices - 1 THEN 1 ELSE 5,
              1, 100, "W", "buy", 1000)}

NextTrail ==
  \/ \E ev \in PoolEvents(Mints, {""}) :
        nextId <= 1 /\ ~ev.hasSig /\ ev.age = 0 /\ OnPool(ev)
  \/ \E m \in Mints : \E ev \in TrailPrices(m), pb \in Predictions(gbmBuy),
                            ps \in Predictions(gbmSell) :
        nPrice < MaxTrailPrices /\ OnPrice(ev, pb, ps)

InitTrail == InitWith({TrailConfig}, {<<TRUE, TRUE, FALSE>>})

SpecTrail == InitTrail /\ [][NextTrail]_vars

\* ------------------------------------------------------------------- claims
\* C1: for every mint, at most one BUY signal and at most one SELL signal are
\* ever emitted on signals$, whatever pool events, price events, timers,
\* completions and manual-sell requests occur.
C1_AtMostOneBuyAndOneSell ==
  \A m \in Mints : buys[m] <= 1 /\ sells[m] <= 1

\* C2: once a step has emitted a SELL signal for a mint, that mint is not a
\* key of states: SELL always untracks.
C2_SellUntracks ==
  \A i \in DOMAIN emitted :
    emitted[i].action = "SELL" => emitted[i].mint \notin DOMAIN states

\* C3: a risk-assessment or dev-exit-probe completion whose TokenState is no
\* longer a value of states removes no entry of states, changes no tracked
\* TokenState and triggers no unsubscribe.
C3_StaleCompletionDiscarded ==
  [][\A id \in Ids :
       LET riskDone == id \in DOMAIN risks /\ id \notin DOMAIN risks'
           probeDone == probes'[id] < probes[id]
       IN ((riskDone \/ probeDone) /\ HolderOf(states, id) = {})
            => (states' = states /\ unsub' = <<>>)]_vars

\* C4: untracking cancels the noBuyTimer of the admission, so the no-buy
\* timeout never untracks a TokenState earlier than no_trade_timeout_sec
\* after that TokenState's own admission.
C4_TimerCancelledOnUntrack ==
  [][last'.op = "noBuyTimer" =>
       \A m \in DOMAIN states \ DOMAIN states' :
         now - states[m].createdAt >= config.no_trade_timeout_sec]_vars

\* C5: riskInFlight is between 0 and MAX_RISK_CONCURRENCY in every reachable
\* state.
C5_RiskInFlightBounded ==
  0 <= riskInFlight /\ riskInFlight <= MAX_RISK_CONCURRENCY

\* The semaphore is full and a waiting call has just woken and gone back to
\* sleep.
C5_FullWithWaiter ==
  /\ riskInFlight = MAX_RISK_CONCURRENCY
  /\ last.op = "riskWake"
  /\ \E id \in DOMAIN risks : risks[id].pc = "wait"

\* C6: for each tracked token whose devSold is false, at most one dev-exit
\* probe is in flight at any time.
C6_OneProbeInFlight ==
  \A m \in DOMAIN states : ~states[m].devSold => probes[states[m].id] <= 1

\* C7: a TokenState with hasBought = true has entryPrice and entrySol set,
\* and as long as it stays in states neither of them changes.
C7_EntryFixedOnceBought ==
  [][\A m \in DOMAIN states' :
       states'[m].hasBought =>
         /\ states'[m].entryPrice # Undef
         /\ states'[m].entrySol # Undef
         /\ (m \in DOMAIN states /\ states[m].id = states'[m].id
               /\ states[m].hasBought)
              => /\ states'[m].entryPrice = states[m].entryPrice
                 /\ states'[m].entrySol = states[m].entrySol]_vars

\* A bought token has processed a later price event at another price and is
\* still tracked.
C7_HeldThroughPriceChange ==
  \E m \in DOMAIN states :
    /\ states[m].hasBought
    /\ last.op = "onPrice"
    /\ states[m].lastPrice # states[m].entryPrice

\* C8: investedSol is never negative; a step that decreases it emits a SELL
\* and decreases it by exactly the entrySol of the token sold, and every SELL
\* of a position held before the step releases exactly its entrySol.
C8_InvestedReleasedAtSell ==
  [][/\ investedSol' >= 0
     /\ investedSol' < investedSol =>
          /\ last'.op = "onPrice"
          /\ Count(emitted', "SELL") = 1
          /\ last'.mint \in DOMAIN states
          /\ investedSol - investedSol' = states[last'.mint].entrySol
     /\ (/\ last'.exit # ""
         /\ Count(emitted', "BUY") = 0
         /\ states[last'.mint].hasBought)
          => investedSol' = investedSol - states[last'.mint].entrySol]_vars

\* Two positions were opened and the SELL of the second has just released
\* one entrySol.
C8_OneOfTwoReleased ==
  /\ last.exit # ""
  /\ Count(emitted, "BUY") = 0
  /\ totalInvestedSol = 2 * config.trade_size_sol
  /\ investedSol = config.trade_size_sol

\* C9: on every exit path, a settle changes profitSol by exactly
\* entrySol * (exitPrice - entryPrice) / entryPrice, with exitPrice the price
\* of the triggering event and entryPrice, entrySol the values recorded at
\* BUY.
C9_SettleAddsPositionPnl ==
  [][\A m \in DOMAIN states :
       LET held == states[m].hasBought
           boughtNow == Count(emitted', "BUY") = 1
           exitPrice == emitted'[Len(emitted')].price
           entryPrice == IF held THEN states[m].entryPrice ELSE emitted'[1].price
           entrySol == IF held THEN states[m].entrySol ELSE config.trade_size_sol
       IN (last'.exit # "" /\ last'.mint = m /\ (held \/ boughtNow))
            => RSub(profitSol', profitSol) =
                 Rat(entrySol * (exitPrice - entryPrice), entryPrice)]_vars

\* A position has just been closed at a loss by the trailing stop.
C9_TrailingLossSettled ==
  /\ last.exit = "trailing"
  /\ pnlOut # <<>>
  /\ RLt(profitSol, RZero)

\* C10: every SELL signal emitted by the strategy comes with exactly one pnl$
\* emission in the same onPrice step, carrying the cumulative profitSol, and
\* pnl$ emits at no other time.
C10_SellEmitsPnlOnce ==
  /\ Len(pnlOut) = (IF last.op = "onPrice" THEN Count(emitted, "SELL") ELSE 0)
  /\ \A i \in DOMAIN pnlOut : pnlOut[i] = profitSol


\* C11: for a tracked token with hasBought = true, a price event whose
\* liquidity is below peakLiquidity * (1 - rug_liquidity_drop_pct) emits
\* exactly SELL(SL) at the event's price, settles the position (one pnl$
\* emission) and untracks the token.
C11_RugExitOnLiquidityDrop ==
  [][\A m \in DOMAIN states : \A ev \in TradePrices(m) :
       \A pb \in Predictions(gbmBuy), ps \in Predictions(gbmSell) :
         (/\ states[m].hasBought
          /\ ev.liquidity # Undef
          /\ RLt(RInt(ev.liquidity),
                 RMul(RInt(states[m].peakLiquidity),
                      RSub(ROne, config.rug_liquidity_drop_pct)))
          /\ OnPrice(ev, pb, ps))
         => /\ emitted' = <<Signal(m, "SELL", "SL", ev.price)>>
            /\ Len(pnlOut') = 1
            /\ m \notin DOMAIN states']_vars

\* C12: with pure_ml and both models always predicting above their
\* thresholds, the price event that emits BUY emits no SELL, and a SELL is a
\* SELL(TP) emitted by a later price event, for a token that was already
\* bought when that event arrived.
C12_PureMLBuyThenSellNextEvent ==
  [][\A i \in DOMAIN emitted' :
       /\ emitted'[i].action = "BUY" => Len(emitted') = 1
       /\ emitted'[i].action = "SELL" =>
            /\ emitted'[i].reason = "TP"
            /\ emitted'[i].mint \in DOMAIN states
            /\ states[emitted'[i].mint].hasBought]_vars

\* The documented default of momentum_buy_pct (+50 % from the local low).
momentum_buy_pct == <<1, 2>>

\* C13: for a tracked, not-yet-bought token in heuristic mode whose other
\* entry conditions hold (liquidity floor, risk checked, dev gates, age,
\* liquidity, volume, dev blacklist, TPS, wallets, average trade size), a
\* price event at which the price has risen by at least momentum_buy_pct
\* from the lowest observed price emits BUY.
C13_MomentumEntryAtHalfRise ==
  [][\A m \in DOMAIN states : \A ev \in TradePrices(m) :
       \A pb \in Predictions(gbmBuy), ps \in Predictions(gbmSell) :
         LET s == TrackExtrema(UpdateWindow(UpdateLiquidity(states[m], ev), ev),
                               ev.price)
         IN (/\ ~states[m].hasBought
             /\ ~pureML
             /\ ~BelowLiquidityFloor(ev)
             /\ s.riskChecked
             /\ ~(config.skip_dev_first_token /\ s.devFirstToken)
             /\ ~(config.require_dev_sold /\ ~s.devSold)
             /\ now - s.createdAt <= config.token_max_age
             /\ ~HeuristicSkip(s, Derived(s))
             /\ RLe(momentum_buy_pct, percentChange(s.lowestPrice, ev.price))
             /\ OnPrice(ev, pb, ps))
            => Count(emitted', "BUY") = 1]_vars

\* The documented stop-loss level of the sample configuration (-15 % PnL).
stop_loss == <<3, 20>>

\* C14: hard stop-loss.  For a bought token, a price event at which the
\* position's PnL (price / entryPrice - 1) is at or below -stop_loss emits a
\* SELL and untracks the token.  Stated in its weakest reading: heuristic
\* mode only, events at or above the liquidity floor only, and a SELL of any
\* reason accepted.
C14_HardStopLoss ==
  [][\A m \in DOMAIN states : \A ev \in TradePrices(m) :
       \A pb \in Predictions(gbmBuy), ps \in Predictions(gbmSell) :
         (/\ states[m].hasBought
          /\ ~pureML
          /\ ~BelowLiquidityFloor(ev)
          /\ RLe(Rat(ev.price - states[m].entryPrice, states[m].entryPrice),
                 RSub(RZero, stop_loss))
          /\ OnPrice(ev, pb, ps))
         => /\ Count(emitted', "SELL") = 1
            /\ m \notin DOMAIN states']_vars

\* C15: in paper mode (pump_api.paper = true) the Trader issues no HTTP
\* request to the trade API or to the Jito relay, for any sequence of BUY and
\* SELL signals and any validation results; every callApi invocation (each
\* SELL, each validated BUY) is only logged.
C15_PaperModeSendsNothing ==
  trader.paper => /\ trader.requests = <<>>
                  /\ trader.paperLog = trader.calls

\* C15 witness: in paper mode a validated BUY and a SELL have both been
\* handled and logged.
C15_PaperBuyAndSellLogged ==
  /\ trader.paper
  /\ \E i, j \in DOMAIN trader.paperLog :
       trader.paperLog[i].tag = "BUY" /\ trader.paperLog[j].tag = "SELL"

\* C16: in live mode with use_jito, every SELL signal and every validated
\* BUY signal results in exactly one sendTransaction POST to the Jito relay,
\* and none to the trade API.
C16_JitoPostPerTrade ==
  (~trader.paper /\ trader.use_jito) =>
     trader.requests = [i \in DOMAIN trader.calls |->
                          [to |-> "jito", tag |-> trader.calls[i].tag,
                           mint |-> trader.calls[i].mint]]

\* C17: under the entry-point wiring, JitoListener's tracked set contains a
\* mint only while the strategy has a TokenState for it, so the listener
\* publishes no price event for a rejected or untracked mint.
C17_TrackedOnlyWhileAdmitted ==
  tracked \subseteq DOMAIN states

\* C18: when lgbm_enabled is set and the buy or the sell model could not be
\* loaded, the heuristic entry is active whatever pure_ml says: for a tracked,
\* not-yet-bought token that passes the gates and guards of the heuristic
\* entry, a price event with a rise of at least exceptional_momentum_pct
\* from the lowest price emits BUY.
C18_LoadFailureKeepsHeuristicEntry ==
  [][\A m \in DOMAIN states : \A ev \in TradePrices(m) :
       \A pb \in Predictions(gbmBuy), ps \in Predictions(gbmSell) :
         LET s == TrackExtrema(UpdateWindow(UpdateLiquidity(states[m], ev), ev),
                               ev.price)
         IN (/\ config.lgbm_enabled
             /\ modelFiles # ModelsPresent
             /\ ~states[m].hasBought
             /\ ~BelowLiquidityFloor(ev)
             /\ s.riskChecked
             /\ ~(config.skip_dev_first_token /\ s.devFirstToken)
             /\ ~(config.require_dev_sold /\ ~s.devSold)
             /\ now - s.createdAt <= config.token_max_age
             /\ ~HeuristicSkip(s, Derived(s))
             /\ RLe(config.exceptional_momentum_pct,
                    percentChange(s.lowestPrice, ev.price))
             /\ OnPrice(ev, pb, ps))
            => Count(emitted', "BUY") = 1]_vars

\* C19: a risk assessment whose RPC calls fail (feeBps null, bundler false)
\* still completes, and its token, if still tracked, is marked riskChecked,
\* keeps transferFeeBps unset and stays tracked; hence, RPC calls always
\* returning or throwing, every tracked token eventually is riskChecked or
\* untracked.
C19_RiskFailOpen ==
  /\ [][\A id \in DOMAIN risks :
          (\/ /\ risks[id].pc = "fee" /\ ~risks[id].hasSig
              /\ RiskFeeDone(id, Undef)
           \/ /\ risks[id].pc = "tx" /\ risks[id].feeBps = Undef
              /\ RiskTxDone(id, FALSE))
          => /\ id \notin DOMAIN risks'
             /\ unsub' = <<>>
             /\ \A m \in HolderOf(states, id) :
                  /\ m \in DOMAIN states'
                  /\ states'[m].id = id
                  /\ states'[m].riskChecked
                  /\ states'[m].transferFeeBps = Undef]_vars
  /\ \A m \in Mints :
       (m \in DOMAIN states) ~> (m \notin DOMAIN states \/ states[m].riskChecked)

\* C19 witness: the transaction RPC of an assessment whose fee RPC had
\* failed has just completed, and the token is tracked, riskChecked and
\* without a transfer fee.
C19_FailedAssessmentPassed ==
  /\ last.op = "riskTx"
  /\ last.mint \in DOMAIN states
  /\ states[last.mint].riskChecked
  /\ states[last.mint].transferFeeBps = Undef
  /\ ~states[last.mint].isBundler

C21_AdmissionCreatesFreshState ==
  [][\A ev \in PoolEvents(Mints, Devs) :
       (/\ ev.mint \notin DOMAIN states
        /\ ~(/\ config.skip_dev_same_ticker /\ ev.devWallet # "" /\ ev.symbol # ""
             /\ ToLower(GetOr(devLastTicker, ev.devWallet, "")) = ToLower(ev.symbol))
        /\ ev.age <= config.token_max_age
        /\ ev.initialMcap >= config.min_initial_mcap
        /\ ev.initialMcap <= config.max_initial_liquidity_sol
        /\ OnPool(ev))
       => /\ ev.mint \in DOMAIN states'
          /\ states'[ev.mint].createdAt = now
          /\ states'[ev.mint].liquidity = ev.initialMcap
          /\ states'[ev.mint].lowestPrice = MAX_VALUE
          /\ states'[ev.mint].highestPrice = 0
          /\ ~states'[ev.mint].hasBought]_vars

\* C21 witness: a token has just been admitted, after the clock has moved.
C21_AdmittedLater ==
  /\ last.op = "onPool"
  /\ last.mint \in DOMAIN states
  /\ states[last.mint].id = nextId - 1
  /\ states[last.mint].createdAt = now
  /\ now > 0
  /\ states[last.mint].trades = <<>>

\* C22: a pool event whose mint is already a key of states leaves states
\* unchanged (position and timer handle included), leaves devTokenCount
\* unchanged, schedules no timer and starts no risk assessment.
C22_AdmissionIdempotent ==
  [][\A ev \in PoolEvents(Mints, Devs) :
       (ev.mint \in DOMAIN states /\ OnPool(ev))
       => UNCHANGED <<states, devTokenCount, timers, risks, riskInFlight, nextId>>]_vars

\* C22 witness: a pool event has just arrived for the mint of a token that
\* holds a position.
C22_DuplicateForBoughtToken ==
  /\ last.op = "onPool"
  /\ last.mint \in DOMAIN states
  /\ states[last.mint].hasBought
  /\ states[last.mint].devWallet # ""

\* C23: for each TokenState, from one step to the next while it stays
\* tracked, highestPrice does not decrease and lowestPrice does not
\* increase; and once the extrema have been updated, highestPrice >=
\* lowestPrice.
C23_ExtremaMonotone ==
  /\ [][\A m \in DOMAIN states :
          (m \in DOMAIN states' /\ states'[m].id = states[m].id)
          => /\ states'[m].highestPrice >= states[m].highestPrice
             /\ states'[m].lowestPrice <= states[m].lowestPrice]_vars
  /\ [](\A m \in DOMAIN states :
          (states[m].highestPrice # 0 \/ states[m].lowestPrice # MAX_VALUE)
          => states[m].highestPrice >= states[m].lowestPrice)

\* C23 witness: a token has seen a low, then a high, and is now at a price
\* strictly between them.
C23_PriceBetweenExtrema ==
  \E m \in DOMAIN states :
    /\ states[m].lowestPrice < states[m].lastPrice
    /\ states[m].lastPrice < states[m].highestPrice

\* C24: after a price event processed at time ts that leaves the token
\* tracked, every trade and every wallet observation kept in the token's
\* lists has ts - entry.ts <= tps_window_ms, and the last trade in the list
\* is the one of the current event (and, when the event names a wallet, the
\* last wallet observation is the event's).
C24_RollingWindowPruned ==
  [][\A m \in DOMAIN states' :
       (last'.op = "onPrice" /\ last'.mint = m /\ m \in DOMAIN states)
       => LET s == states'[m] IN
          /\ \A i \in DOMAIN s.trades :
               (now - s.trades[i].ts) * 1000 <= config.tps_window_ms
          /\ \A i \in DOMAIN s.wallets :
               (now - s.wallets[i].ts) * 1000 <= config.tps_window_ms
          /\ s.trades # <<>>
          /\ \E ev \in TradePrices(m) :
               /\ s.trades[Len(s.trades)] =
                    [ts |-> now, sol |-> ev.sol, wallet |-> ev.wallet]
               /\ ev.wallet # "" =>
                    /\ s.wallets # <<>>
                    /\ s.wallets[Len(s.wallets)] =
                         [addr |-> ev.wallet, ts |-> now]]_vars

\* C24 witness: a price event has just been processed for a token whose
\* window keeps a trade from exactly tps_window_ms ago and has dropped an
\* older one (its cumulative volume exceeds the volume in the window).
C24_OldTradeDropped ==
  /\ last.op = "onPrice"
  /\ \E m \in DOMAIN states :
       /\ Len(states[m].trades) >= 2
       /\ (now - states[m].trades[1].ts) * 1000 = config.tps_window_ms
       /\ states[m].trades[Len(states[m].trades)].ts = now
       /\ states[m].volumeSol > SumSol(states[m].trades)

\* C25: a tracked token that has not bought has its noBuyTimer pending, set
\* to fire no_trade_timeout_sec after its admission; when that timer fires
\* the token is untracked and the step emits no signal; and no step of a
\* noBuyTimer untracks a token that has bought.
C25_NoBuyTimeout ==
  /\ [](\A m \in DOMAIN states :
          ~states[m].hasBought =>
            \E t \in timers :
              /\ t.id = states[m].noBuyTimer
              /\ t.mint = m
              /\ t.fireAt = states[m].createdAt + config.no_trade_timeout_sec)
  /\ [][last'.op = "noBuyTimer" =>
          /\ emitted' = <<>>
          /\ \A m \in DOMAIN states :
               /\ (/\ ~states[m].hasBought
                   /\ \E t \in timers \ timers' : t.id = states[m].noBuyTimer)
                  => m \notin DOMAIN states'
               /\ states[m].hasBought =>
                    (m \in DOMAIN states' /\ states'[m] = states[m])]_vars

\* C25 witness: the timer of a token that saw price events without buying
\* has just fired at its due time and the token is gone.
C25_TimedOutAfterPrices ==
  /\ last.op = "noBuyTimer"
  /\ unsub = <<last.mint>>
  /\ last.mint \notin DOMAIN states
  /\ nPrice > 0
  /\ now = config.no_trade_timeout_sec
  /\ emitted = <<>>

\* C26: with the risk filter enabled, the step in which the assessment of an
\* admission returns feeBps > max_transfer_fee_bps, or bundler = true with
\* allow_bundler false, leaves no TokenState of that admission tracked and
\* emits nothing; and every BUY is emitted for a tracked TokenState whose
\* assessment has completed without such a result, so no BUY is emitted for
\* an admission before its assessment completes or after it was rejected.
C26_RiskRejectionNeverBuys ==
  /\ [][\A id \in DOMAIN risks :
          LET rejects(f, b) == \/ f # Undef /\ f > config.max_transfer_fee_bps
                               \/ b /\ ~config.allow_bundler
          IN /\ \A f \in FeeResults :
                  (/\ risks[id].pc = "fee" /\ ~risks[id].hasSig
                   /\ rejects(f, FALSE)
                   /\ RiskFeeDone(id, f))
                  => HolderOf(states', id) = {} /\ emitted' = <<>>
             /\ \A b \in BOOLEAN :
                  (/\ risks[id].pc = "tx"
                   /\ rejects(risks[id].feeBps, b)
                   /\ RiskTxDone(id, b))
                  => HolderOf(states', id) = {} /\ emitted' = <<>>]_vars
  /\ [][\A i \in DOMAIN emitted' :
          emitted'[i].action = "BUY" =>
            LET m == emitted'[i].mint IN
            /\ m \in DOMAIN states
            /\ states[m].riskChecked
            /\ states[m].id \notin DOMAIN risks
            /\ ~(states[m].transferFeeBps > config.max_transfer_fee_bps)
            /\ ~(states[m].isBundler /\ ~config.allow_bundler)]_vars

\* C26 witness: the assessment of the only admission so far has just ended
\* in a rejection, after price events had arrived for the token; the token
\* is gone and nothing was ever bought.
C26_RejectedAfterPrices ==
  /\ last.op \in {"riskFee", "riskTx"}
  /\ unsub = <<last.mint>>
  /\ last.mint \notin DOMAIN states
  /\ nextId = 2
  /\ nPrice > 0
  /\ buys[last.mint] = 0

\* C27: every BUY is emitted for a token that is in states when the price
\* event arrives, with riskChecked = true, with devFirstToken = false when
\* skip_dev_first_token is on, and with devSold = true when require_dev_sold
\* is on; and with skip_dev_first_token on, a price event for a tracked token
\* with riskChecked and devFirstToken untracks it and emits nothing.
C27_PreEntryGates ==
  /\ [][\A i \in DOMAIN emitted' :
          emitted'[i].action = "BUY" =>
            LET m == emitted'[i].mint IN
            /\ m \in DOMAIN states
            /\ states[m].riskChecked
            /\ config.skip_dev_first_token => ~states[m].devFirstToken
            /\ config.require_dev_sold => states[m].devSold]_vars
  /\ [][\A m \in DOMAIN states :
          (/\ last'.op = "onPrice" /\ last'.mint = m
           /\ config.skip_dev_first_token
           /\ states[m].riskChecked /\ states[m].devFirstToken)
          => m \notin DOMAIN states' /\ emitted' = <<>>]_vars

\* C27 witness: under the default gates a price event has just emitted a
\* BUY, for a token of a dev that had launched before and whose exit a
\* balance check had confirmed.
C27_BuyUnderDefaultGates ==
  /\ last.op = "onPrice"
  /\ config.skip_dev_first_token /\ config.require_dev_sold
  /\ config.enable_tax_bundler_filter
  /\ \E i \in DOMAIN emitted : emitted[i].action = "BUY"
  /\ GetOr(devTokenCount, "D", 0) >= 2

C29_HardTakeProfitFirst ==
  [][\A m \in DOMAIN states : \A ev \in TradePrices(m) :
       \A pb \in Predictions(gbmBuy), ps \in Predictions(gbmSell) :
         (/\ states[m].hasBought
          /\ ~pureML
          /\ RDefined(config.take_profit)
          /\ RLe(config.take_profit, percentChange(states[m].entryPrice, ev.price))
          /\ ~BelowLiquidityFloor(ev)
          /\ ~RugDetected(UpdateLiquidity(states[m], ev))
          /\ ~MLExit(states[m], ps)
          /\ ~MigrationFill(UpdateLiquidity(states[m], ev), ev)
          /\ OnPrice(ev, pb, ps))
         => /\ emitted' = <<Signal(m, "SELL", "TP", ev.price)>>
            /\ Len(pnlOut') = 1
            /\ m \notin DOMAIN states']_vars

\* C29 witness: with take_profit = 1/3, a token bought at time 0 has just
\* been sold with SELL(TP) at price 4 by a price event at time 2 (one trade
\* in the window and a gain below disable_ema_tps_gain_pct: the TPS-collapse
\* test would have passed as well).
C29_TakeProfitBeatsTpsCollapse ==
  /\ last.op = "onPrice"
  /\ config.take_profit = <<1, 3>>
  /\ RLt(config.take_profit, config.disable_ema_tps_gain_pct)
  /\ emitted = <<Signal(last.mint, "SELL", "TP", 4)>>
  /\ Len(pnlOut) = 1
  /\ last.mint \notin DOMAIN states
  /\ buys[last.mint] = 1
  /\ GetOr(devBlacklist, "D", Undef) = config.dev_blacklist_sec
  /\ now = 2

\* C30: for a token that is bought when a price event arrives (pure_ml
\* off), at an event that reaches the sell logic, is not a take-profit, and
\* at which neither the EMA-cross exit nor the trailing stop fires, SELL(SL)
\* is emitted exactly when gainPct < 0.3 and tps < exit_tps, 0.3 being a
\* constant.
C30_TpsCollapseFixedBound ==
  [][\A m \in DOMAIN states : \A ev \in TradePrices(m) :
       \A pb \in Predictions(gbmBuy), ps \in Predictions(gbmSell) :
         LET s0 == UpdateLiquidity(states[m], ev)
             s1 == TrackExtrema(UpdateWindow(s0, ev), ev.price)
             d == Derived(s1)
             s2 == IF ev.price > s1.peakSinceEntry
                     THEN [s1 EXCEPT !.peakSinceEntry = ev.price] ELSE s1
             s3 == IF RLe(config.exceptional_momentum_pct,
                          percentChange(s2.lowestPrice, ev.price))
                     THEN [s2 EXCEPT !.isExceptional = TRUE] ELSE s2
             t == Trail(s3, d)
             takeProfit == /\ RDefined(config.take_profit)
                           /\ RLe(config.take_profit,
                                  percentChange(s3.entryPrice, ev.price))
             emaCross == /\ RLt(t.gainPct, config.disable_ema_tps_gain_pct)
                         /\ RLt(s3.emaShort, s3.emaLong)
             trailing == RLe(RInt(ev.price),
                             RSub(RInt(s3.peakSinceEntry), t.allowedDrop))
         IN (/\ states[m].hasBought
             /\ ~pureML
             /\ ~BelowLiquidityFloor(ev)
             /\ ~RugDetected(s0)
             /\ ~MLExit(states[m], ps)
             /\ ~MigrationFill(s0, ev)
             /\ ~takeProfit
             /\ ~emaCross
             /\ ~trailing
             /\ OnPrice(ev, pb, ps))
            => ((emitted' = <<Signal(m, "SELL", "SL", ev.price)>>)
                  <=> (/\ RLt(t.gainPct, <<3, 10>>)
                       /\ RLt(d.tps, t.exitTps)))]_vars

\* C30, as the code has it: the same statement with the bound
\* disable_ema_tps_gain_pct (default 0.3) in place of the constant 0.3.
C30_TpsCollapseConfiguredBound ==
  [][\A m \in DOMAIN states : \A ev \in TradePrices(m) :
       \A pb \in Predictions(gbmBuy), ps \in Predictions(gbmSell) :
         LET s0 == UpdateLiquidity(states[m], ev)
             s1 == TrackExtrema(UpdateWindow(s0, ev), ev.price)
             d == Derived(s1)
             s2 == IF ev.price > s1.peakSinceEntry
                     THEN [s1 EXCEPT !.peakSinceEntry = ev.price] ELSE s1
             s3 == IF RLe(config.exceptional_momentum_pct,
                          percentChange(s2.lowestPrice, ev.price))
                     THEN [s2 EXCEPT !.isExceptional = TRUE] ELSE s2
             t == Trail(s3, d)
             takeProfit == /\ RDefined(config.take_profit)
                           /\ RLe(config.take_profit,
                                  percentChange(s3.entryPrice, ev.price))
             emaCross == /\ RLt(t.gainPct, config.disable_ema_tps_gain_pct)
                         /\ RLt(s3.emaShort, s3.emaLong)
             trailing == RLe(RInt(ev.price),
                             RSub(RInt(s3.peakSinceEntry), t.allowedDrop))
         IN (/\ states[m].hasBought
             /\ ~pureML
             /\ ~BelowLiquidityFloor(ev)
             /\ ~RugDetected(s0)
             /\ ~MLExit(states[m], ps)
             /\ ~MigrationFill(s0, ev)
             /\ ~takeProfit
             /\ ~emaCross
             /\ ~trailing
             /\ OnPrice(ev, pb, ps))
            => ((emitted' = <<Signal(m, "SELL", "SL", ev.price)>>)
                  <=> (/\ RLt(t.gainPct, config.disable_ema_tps_gain_pct)
                       /\ RLt(d.tps, t.exitTps)))]_vars

\* C30 witness: with disable_ema_tps_gain_pct = 0.5 and no take-profit, a
\* token bought at time 0 has just been sold with SELL(SL) at price 4, a new
\* high, by a price event at time 2: one trade in the window, and a gain of
\* 1/3 from the entry at 3.
C30_CollapseExitAboveThirtyPercent ==
  /\ last.op = "onPrice"
  /\ ~RDefined(config.take_profit)
  /\ config.disable_ema_tps_gain_pct = <<1, 2>>
  /\ emitted = <<Signal(last.mint, "SELL", "SL", 4)>>
  /\ last.mint \notin DOMAIN states
  /\ buys[last.mint] = 1
  /\ totalInvestedSol = config.trade_size_sol
  /\ profitSol = Rat(config.trade_size_sol, 3)
  /\ GetOr(devBlacklist, "D", Undef) = config.dev_blacklist_sec
  /\ now = 2

\* C31: a pool event rejected by an admission filter (age above
\* token_max_age, initialMcap below min_initial_mcap or above
\* max_initial_liquidity_sol) creates no TokenState, leaves states and
\* devTokenCount unchanged, schedules no timer and starts no risk assessment.
C31_RejectedPoolEventChangesNothing ==
  [][\A ev \in FilterPoolEvents :
       (/\ last'.op = "onPool"
        /\ \/ ev.age > config.token_max_age
           \/ ev.initialMcap < config.min_initial_mcap
           \/ ev.initialMcap > config.max_initial_liquidity_sol
        /\ OnPool(ev))
       => UNCHANGED <<states, devTokenCount, timers, risks, riskInFlight,
                      nextId>>]_vars

\* C31 witness: a first pool event has been handled and nothing is tracked,
\* counted, timed or being assessed: it was rejected by a filter.
C31_FirstPoolEventRejected ==
  /\ last.op = "onPool"
  /\ nextId = 1
  /\ states = <<>>
  /\ devTokenCount = <<>>
  /\ timers = {}
  /\ risks = <<>>
  /\ riskInFlight = 0

\* One step of the descent the claim describes: at a leaf stay, otherwise
\* take left_child when feats[split_feature] <= threshold (a missing feature
\* read as 0) and right_child otherwise.
C32_Descend(node, feats) ==
  IF node.leaf_value # {} THEN node
  ELSE IF (LET f == IF node.split_feature = {} THEN 0
                    ELSE CHOOSE i \in node.split_feature : TRUE
               x == IF f + 1 <= Len(feats) THEN feats[f + 1] ELSE 0
               thr == IF node.threshold = {} THEN 0
                      ELSE CHOOSE v \in node.threshold : TRUE
           IN x <= thr)
    THEN node.left_child
    ELSE node.right_child

\* The value of the leaf reached from the root (the trees here have depth at
\* most two).
C32_LeafValue(tree, feats) ==
  LET leaf == C32_Descend(C32_Descend(tree, feats), feats)
  IN CHOOSE v \in leaf.leaf_value : TRUE

\* The sum of the leaf values reached in the first n trees.
RECURSIVE C32_SumLeaves(_, _, _)
C32_SumLeaves(n, trees, feats) ==
  IF n = 0 THEN 0
  ELSE C32_SumLeaves(n - 1, trees, feats) + C32_LeafValue(trees[n], feats)

\* C32: after predict(feats), the pre-sigmoid score equals init_score plus
\* the sum over the trees of the leaf value reached by the descent; and for
\* init_score = 0 and a single tree that is one leaf of value v, the score
\* is v whatever feats is.
C32_ScoreIsInitPlusLeaves ==
  predictor.calls > 0 =>
    /\ predictor.score =
         predictor.initScore
           + C32_SumLeaves(Len(predictor.trees), predictor.trees, predictor.feats)
    /\ (/\ predictor.initScore = 0
        /\ Len(predictor.trees) = 1
        /\ predictor.trees[1].leaf_value # {})
       => predictor.trees[1].leaf_value = {predictor.score}

\* C32 witness: a two-tree ensemble with the depth-two tree has scored a
\* vector whose feature 0 equals the root's threshold and whose feature 1 is
\* missing: left at the root, left again on the default 0, plus the second
\* tree's leaf.
C32_ThresholdAndMissingFeature ==
  /\ predictor.calls > 0
  /\ Len(predictor.trees) = 2
  /\ predictor.trees[1] = Split({0}, {1}, Split({1}, {0}, Leaf(5), Leaf(-3)), Leaf(7))
  /\ predictor.trees[2] = Leaf(2)
  /\ predictor.feats = <<1>>
  /\ predictor.initScore = 3
  /\ predictor.score = 10

\* C33: a TokenState with hasBought = true leaves states only in a step that
\* also emits a SELL signal for its mint and settles it (a pnl$ emission).
C33_PositionNeverAbandoned ==
  [][\A m \in DOMAIN states :
       (/\ states[m].hasBought
        /\ \/ m \notin DOMAIN states'
           \/ states'[m].id # states[m].id)
       => /\ \E i \in DOMAIN emitted' :
               emitted'[i].mint = m /\ emitted'[i].action = "SELL"
          /\ pnlOut' # <<>>]_vars

\* C34: a price event emits a SELL signal for a mint only if a BUY signal
\* for that mint was emitted before it (in an earlier step, or earlier in
\* the same step) and the token is bought: hasBought = true when the event
\* arrives, or set by that BUY.
C34_SellOnlyAfterBuy ==
  [][\A i \in DOMAIN emitted' :
       (last'.op = "onPrice" /\ emitted'[i].action = "SELL") =>
         LET m == emitted'[i].mint IN
         /\ m \in DOMAIN states
         /\ \/ states[m].hasBought /\ buys[m] >= 1
            \/ \E j \in 1..(i - 1) :
                 emitted'[j].mint = m /\ emitted'[j].action = "BUY"]_vars

\* C35: dev cooldown.  A BUY on a token of a dev writes
\* devBlacklist[dev] = now + dev_blacklist_sec; while that entry has not
\* expired, no price event emits a BUY, by the heuristic or by the model,
\* for another token of the same dev.
C35_NoBuyDuringDevCooldown ==
  [][\A m \in DOMAIN states :
       LET dev == states[m].devWallet
           exp == GetOr(devBlacklist, dev, Undef)
       IN (/\ last'.op = "onPrice" /\ last'.mint = m
           /\ ~states[m].hasBought
           /\ dev # ""
           /\ Truthy(exp) /\ now < exp)
          => ~\E i \in DOMAIN emitted' :
                emitted'[i].mint = m /\ emitted'[i].action = "BUY"]_vars

\* C36: every sell request of the Trader is preceded by a buy request for
\* the same mint.  Stated for the interleaving the claim is about: a SELL
\* signal handled while the BUY signal of that mint is still inside
\* validateToken finds a buy request for the mint already issued.
C36_SellRequestAfterBuyRequest ==
  [][\A m \in AllMints :
       (/\ last'.op = "onSignal" /\ last'.mint = m
        /\ \E i \in DOMAIN trader.validating : trader.validating[i] = m
        /\ Len(trader'.calls) = Len(trader.calls) + 1
        /\ trader'.calls[Len(trader'.calls)].tag = "SELL")
       => \E j \in DOMAIN trader.calls :
            trader.calls[j].tag = "BUY" /\ trader.calls[j].mint = m]_vars

\* C37: the listener keeps at most one live subscription: in every state at
\* most one stream is delivering data, and no transaction update has been
\* published on prices$ more than once.
C37_AtMostOneLiveStream ==
  /\ Cardinality({i \in DOMAIN geyser.streams :
                    Delivering(geyser.streams[i])}) <= 1
  /\ \A j, k \in DOMAIN geyser.published :
       geyser.published[j].update = geyser.published[k].update => j = k

\* The price events handleMessage can publish for mint m.
C38_ListenerEvents(m) ==
  {HandleMessage(u)[1] : u \in {v \in GeyserUpdates :
                                  v.mint = m /\ HandleMessage(v) # <<>>}}

\* C38: with the default configuration and the entry-point wiring a BUY is
\* reachable, for which a tracked token must survive a price event of the
\* listener: for every token the strategy tracks and the listener follows,
\* and that no entry gate has yet had the occasion to drop (its risk
\* assessment is pending), some price event the listener can publish leaves
\* the token tracked.
C38_ListenerPriceSurvivable ==
  \A m \in DOMAIN states \cap tracked :
    ~states[m].riskChecked =>
    ENABLED (\E ev \in C38_ListenerEvents(m), pb \in Predictions(gbmBuy),
               ps \in Predictions(gbmSell) :
               OnPrice(ev, pb, ps) /\ m \in DOMAIN states')

\* C39: one onPrice call emits at most one signal, whatever the models
\* loaded and whatever pure_ml: no price event emits both a BUY and a SELL.
C39_OneSignalPerPriceEvent ==
  [][last'.op = "onPrice" =>
       /\ Len(emitted') <= 1
       /\ Count(emitted', "BUY") = 0 \/ Count(emitted', "SELL") = 0]_vars

\* C40: with the default parameters the trailing stop stays attainable: for
\* every bought token, dynTrail as the sell logic computes it for the
\* token's state is below 1, so that peakSinceEntry * (1 - dynTrail) is
\* positive.
C40_DynTrailBelowOne ==
  \A m \in DOMAIN states :
    states[m].hasBought =>
      RLt(Trail(states[m], Derived(states[m])).dynTrail, ROne)

====
